---- MODULE Spec2Model ----
(***************************************************************************)
(* Build lifecycle of the host (OCI) builder: pkg/oci/builder.go.          *)
(*                                                                         *)
(* Several independent OS processes run Builder.Build on one function      *)
(* directory.  The shared state is the directory tree                      *)
(*     .func/builds/by-hash/<hash>/oci/...                                 *)
(*     .func/builds/by-pid/<pid>   -> ../by-hash/<hash>                    *)
(*     .func/builds/last           -> <root>/.func/builds/by-hash/<hash>   *)
(* Every filesystem mutation of Build is one step of the model; the reads  *)
(* that decide a mutation (isActive, isLinkTo, ReadDir) are steps of their *)
(* own, so the check-then-act windows of the code are windows here too.    *)
(***************************************************************************)
EXTENDS Naturals, FiniteSets, Sequences

\* ---- bounds -------------------------------------------------------------
NumProcs == 3      \* process ids in use: 1..NumProcs
NumHashes == 2     \* distinct content hashes (fingerprints): 1..NumHashes
MaxBuilds == 3     \* Build calls started in one behaviour
MaxDeaths == 1     \* processes that end (exit or are killed) in one behaviour
MaxOciBuilds == 2  \* successive Build calls in one behaviour of SpecOci
MaxClock == 2      \* distinct readings of time.Now() in one behaviour of SpecOci
MaxPushes == 2     \* successive Push calls in one behaviour of SpecPush

Pids == 1..NumProcs
Hashes == 1..NumHashes
None == 0

VARIABLES
    alive,      \* alive[p]: a process with id p exists (the OS process table)
    pc,         \* pc[p]: position of process p inside Build
    h,          \* h[p]: cfg.hash() of the Build p is running
    err,        \* err[p]: Build's named result `err` so far
    dd,         \* dd[p]: entries of teardown's ReadDir(buildsDir) still to visit
    pidLinks,   \* pidLinks[q]: target of builds/by-pid/<q>, None if absent
    dirs,       \* the by-hash directories that exist
    index,      \* the by-hash directories holding oci/index.json
    last,       \* target of builds/last, None if absent
    touched,    \* touched[p]: p's current Build call changed builds/last
    swept,      \* swept[p]: targets of the stale markers p's teardown removed
    solo,       \* the process no other process has disturbed since it called Build
    returned,   \* the Build call that returned in the last step, NoCall if none
    builds,     \* Build calls started so far
    deaths,     \* processes ended so far
    \* -- SpecOci: the files of one build directory --
    func,       \* the function f: its runtime, run envs and volumes
    clock,      \* what time.Now() returns
    cfg,        \* the buildConfig and the locals of containerize
    cstep,      \* position of the process inside Build
    ociDir,     \* by-hash/<hash> exists
    blobs,      \* the files of by-hash/<hash>/oci/blobs/sha256: name, content
    indexJson,  \* the content of by-hash/<hash>/oci/index.json, NoFile if absent
    ociLast,    \* builds/last points at by-hash/<hash>
    ociMarker,  \* by-pid/<pid> of the process exists
    ociDone,    \* the Build calls that returned, in order
    \* -- SpecPush: one Pusher and the registry --
    image,      \* f.Image
    ppc,        \* position of the caller inside Push
    perr,       \* Push's named result err so far
    pdigest,    \* Push's named result digest so far
    pwrote,     \* the current Push has called remote.WriteIndex
    pctx,       \* the Push calls whose context is cancelled
    pdone,      \* values waiting in the channel p.done (capacity 1)
    handlers,   \* the Push calls whose handleUpdates goroutine is running
    registry,   \* what the registry holds under f.Image
    pushes,     \* the Push calls that returned, in order
    \* -- the small specifications: one record each --
    sb,         \* SpecSetup: one Build call whose fingerprint or setup may fail
    tmp,        \* SpecTmp: the files two concurrent builds create and rename
    walk,       \* SpecWalk: a source tree and the data layer newData makes of it
    gobuild,    \* SpecEnvs: a platform, build envs and the compiler environment
    job,        \* SpecJob: the runs directory, the listeners and a NewJob call
    port        \* SpecPort: the listeners on the host and a choosePort call

fsvars == <<pidLinks, dirs, index, last>>
vars == <<alive, pc, h, err, dd, pidLinks, dirs, index, last,
          touched, swept, solo, returned, builds, deaths>>
ocivars == <<func, clock, cfg, cstep, ociDir, blobs, indexJson, ociLast,
            ociMarker, ociDone>>
pushvars == <<image, ppc, perr, pdigest, pwrote, pctx, pdone, handlers,
             registry, pushes>>
auxvars == <<sb, tmp, walk, gobuild, job, port>>
allvars == <<vars, ocivars, pushvars, auxvars>>

\* ---- pure helpers of builder.go -----------------------------------------

\* (variant: the test of the probe's error inverted, err != nil)
processExistsInverted(q) == ~alive[q]

\* process.Signal(syscall.Signal(0)) succeeds: a process with this id exists.
processExists(q) == alive[q]

\* filepath.EvalSymlinks fails on a link whose target is missing, so a link
\* is "to" a directory only while that directory exists.
isLinkTo(target, dir) == target # None /\ target = dir /\ dir \in dirs

isActive(dir) ==
    \E q \in Pids : pidLinks[q] # None /\ processExists(q)
                                       /\ isLinkTo(pidLinks[q], dir)

\* (variant: the test against builds/last left out)
KeptNoLast(dir) == isActive(dir)

\* (variant: the test against the markers of live processes left out)
KeptNoActive(dir) == isLinkTo(last, dir)

\* (variant: no build directory is ever found removable)
KeptAll(dir) == dir = dir

\* the two tests of teardown's second loop: a build directory is kept if it
\* is the one of the last successful build or that of a build in progress
Kept(dir) == isLinkTo(last, dir) \/ isActive(dir)

\* os.ReadDir returns the entries sorted by name: the first one to visit.
First(S) == CHOOSE d \in S : \A e \in S : d <= e

\* ---- containerize: one process building one function ----------------------
\* A second specification, SpecOci, follows one process through successive
\* Build calls on one function whose source does not change, and keeps the
\* contents of the files containerize writes below by-hash/<hash>/oci.

NoPath == "nil"
NoFile == [schemaVersion |-> 0]
NoPlatform == [os |-> "", architecture |-> "", variant |-> ""]
NoDesc == [mediaType |-> "", digest |-> <<>>, size |-> <<>>,
           platform |-> NoPlatform]

\* oci.DefaultPlatforms
DefaultPlatforms ==
    << [os |-> "linux",  architecture |-> "amd64", variant |-> ""],
       [os |-> "linux",  architecture |-> "arm64", variant |-> ""],
       [os |-> "darwin", architecture |-> "amd64", variant |-> ""],
       [os |-> "darwin", architecture |-> "arm64", variant |-> ""] >>

\* f.Runtime: the cases of newLanguageLayerBuilder's switch; "quarkus"
\* stands for every runtime that falls to its default case
Runtimes == {"go", "python", "node", "rust", "quarkus"}

\* f.Run.Envs as Envs.Slice() gives them: <<name, value>> is "name=value"
EnvSlices == { <<>>, << <<"A", "1">>, <<"B", "2">> >> }

\* f.Run.Volumes: the Path of each declared volume, NoPath for a nil Path
VolumeLists ==
    { <<>>, <<NoPath>>, <<"/a">>, <<NoPath, "/a">>, <<"/a", "/b">>,
      <<"/a", "/a">> }

\* v1.SHA256 / Layer.Digest: the digest of a file's bytes (no collisions)
SHA256(bytes) == <<"sha256", bytes>>

\* the size v1.SHA256 / Layer.Size reports for a file's bytes
Size(bytes) == <<"size", bytes>>

\* Layer.DiffID: the digest of a layer's uncompressed bytes
DiffID(layer) == <<"diffid", layer>>

\* a v1.Descriptor of a file
Descriptor(mediaType, bytes, platform) ==
    [mediaType |-> mediaType, digest |-> SHA256(bytes), size |-> Size(bytes),
     platform |-> platform]

\* (variant: the temporary file moved into blobs before it was written)
StoredEmpty(bytes) == [name |-> SHA256(bytes), content |-> [kind |-> "empty"]]

\* os.Rename(tmp, path(cfg.blobsDir(), digest.Hex)): the file in blobs/sha256
Stored(bytes) == [name |-> SHA256(bytes), content |-> bytes]

\* the header names of the entries below f.Root, in the order filepath.Walk
\* visits them
SourceFiles == <<"/func/go.mod", "/func/handle.go">>

\* newData: the gzipped tar of /func and of the first n entries below f.Root,
\* each header's ModTime set to cfg.t
Archived(t, n) ==
    [kind |-> "data", files |-> <<"/func">> \o SubSeq(SourceFiles, 1, n),
     modTime |-> t]

\* the data layer of a walk that visited every entry
DataLayer(t) == Archived(t, Len(SourceFiles))

\* no v1.Layer
NoLayer == [kind |-> "data", files |-> <<>>, modTime |-> 0]

\* the functions built: f.Runtime, f.Run.Envs, f.Run.Volumes and the handler
\* functions its source declares; the envs and volumes vary for the sources
\* that declare Handle alone
Functions ==
    {f \in [runtime : Runtimes, envs : EnvSlices, volumes : VolumeLists,
            handlers : SUBSET {"Handle", "New"}] :
        /\ f.handlers # {"New"}
        /\ f.handlers = {"Handle"} \/ (f.envs = <<>> /\ f.volumes = <<>>)}

\* scaffolding's signature: its error, <<>> for nil.  runtimeDetector knows
\* go and python; the python detector always fails; the go detector finds
\* the declarations of Handle (static) and New (instanced)
signature(f) ==
    CASE f.runtime \in {"rust", "node", "quarkus"} ->
           <<"signature detector is not yet available.">>
      [] f.runtime = "python" ->
           <<"the Python method signature detector is not yet available.">>
      [] f.runtime = "go" ->
           IF "Handle" \in f.handlers /\ "New" \in f.handlers
             THEN <<"function may not implement both the static and instanced method signatures simultaneously">>
             ELSE IF f.handlers = {}
                    THEN <<"function does not appear to implement any known method signatures">>
                    ELSE <<>>
      [] OTHER ->
           <<"Unable to detect the signature of the unrecognized runtime language ",
             f.runtime>>

\* scaffolding.Write: what it can return, and whether it wrote the
\* scaffolding into the build directory.  When the signature cannot be
\* determined it returns nil and writes nothing; otherwise the lookup of the
\* scaffolding or its copy can fail.
Write(f) ==
    IF signature(f) # <<>>
      THEN {[err |-> <<>>, written |-> FALSE]}
      ELSE {[err |-> <<>>, written |-> TRUE],
            [err |-> <<"no scaffolding found">>, written |-> FALSE]}

\* the go layer: the gzipped tar of the binary cross-compiled for platform p
\* as /func/f, its header's ModTime the build's timestamp
ExecLayer(p, t) ==
    [kind |-> "exec", files |-> <<"/func/f">>, os |-> p.os,
     architecture |-> p.architecture, modTime |-> t]

\* (variant: the default case of the switch returning the go builder)
newLanguageLayerBuilderLenient(runtime) ==
    CASE runtime = "python" ->
           <<"Python functions are not yet supported by the host builder.">>
      [] runtime = "node" ->
           <<"Node functions are not yet supported by the host builder.">>
      [] runtime = "rust" ->
           <<"Rust functions are not yet supported by the host builder.">>
      [] OTHER -> <<>>

\* newLanguageLayerBuilder: its error, <<>> for nil; fmt.Errorf's parts are
\* the elements of the message
newLanguageLayerBuilder(runtime) ==
    CASE runtime = "go" -> <<>>
      [] runtime = "python" ->
           <<"Python functions are not yet supported by the host builder.">>
      [] runtime = "node" ->
           <<"Node functions are not yet supported by the host builder.">>
      [] runtime = "rust" ->
           <<"Rust functions are not yet supported by the host builder.">>
      [] OTHER ->
           <<"The language runtime '", runtime,
             "' is not a recognized language by the host builder.">>

\* (variant: the volumes without a path not skipped)
VolumesUnfiltered(vv) == {vv[j] : j \in DOMAIN vv}

\* newConfig's first loop: the set of the paths of the volumes that have one
Volumes(vv) == {vv[j] : j \in {k \in DOMAIN vv : vv[k] # NoPath}}

\* newConfig: the v1.ConfigFile written for platform p over the given layers
newConfig(f, t, p, layers) ==
    [kind |-> "config",
     created |-> t,
     architecture |-> p.architecture,
     os |-> p.os,
     variant |-> p.variant,
     config |-> [ExposedPorts |-> {"8080/tcp"},
                 Env |-> f.envs,
                 Cmd |-> <<"/func/f">>,
                 WorkingDir |-> "/func/",
                 StopSignal |-> "SIGKILL",
                 Volumes |-> Volumes(f.volumes)],
     rootfs |-> [type |-> "layers",
                 diff_ids |-> [j \in DOMAIN layers |-> DiffID(layers[j])]]]

\* (variant: the layers listed as [exec, data])
ManifestExecFirst(configDesc, dataDesc, execDesc) ==
    [kind |-> "manifest", schemaVersion |-> 2,
     mediaType |-> "application/vnd.oci.image.manifest.v1+json",
     config |-> configDesc, layers |-> <<execDesc, dataDesc>>]

\* newImage: the v1.Manifest of one platform
Manifest(configDesc, dataDesc, execDesc) ==
    [kind |-> "manifest", schemaVersion |-> 2,
     mediaType |-> "application/vnd.oci.image.manifest.v1+json",
     config |-> configDesc, layers |-> <<dataDesc, execDesc>>]

\* newImageIndex: the v1.IndexManifest encoded into oci/index.json
ImageIndex(imageDescs) ==
    [schemaVersion |-> 2,
     mediaType |-> "application/vnd.oci.image.index.v1+json",
     manifests |-> imageDescs]

\* buildConfig and the locals of containerize, before a Build call
NoCfg == [ctx |-> "live", t |-> 0, i |-> 0, dataDesc |-> NoDesc,
          dataLayer |-> NoLayer, imageDescs |-> <<>>, err |-> <<>>,
          wrote |-> FALSE, fresh |-> FALSE, scaffolded |-> FALSE,
          walkErr |-> FALSE, updated |-> FALSE, doneAt |-> "never",
          doneI |-> 0]

\* f.Image: a reference name.ParseReference accepts, and the empty string
Images == {"example.com/alice/f:latest", ""}

\* SpecPush takes no part in Spec and SpecOci
PushIdle ==
    /\ image = "example.com/alice/f:latest"
    /\ ppc = "idle"
    /\ perr = "none"
    /\ pdigest = <<>>
    /\ pwrote = FALSE
    /\ pctx = {}
    /\ pdone = 0
    /\ handlers = {}
    /\ registry = {}
    /\ pushes = <<>>

\* SpecOci takes no part in Spec
OciIdle ==
    /\ func = [runtime |-> "go", envs |-> <<>>, volumes |-> <<>>,
               handlers |-> {"Handle"}]
    /\ clock = 1
    /\ cfg = NoCfg
    /\ cstep = "idle"
    /\ ociDir = FALSE
    /\ blobs = {}
    /\ indexJson = NoFile
    /\ ociLast = FALSE
    /\ ociMarker = FALSE
    /\ ociDone = <<>>

\* ---- the small specifications, idle ----------------------------------------

\* no link: builds/last or a by-pid marker that does not exist
NoLink == <<"">>

\* no Build call of SpecSetup yet, nothing below builds
SbIdle == [fp |-> [value |-> "h1", err |-> FALSE], tree |-> {},
           lastLink |-> NoLink, pidLink |-> NoLink, other |-> NoLink,
           pc |-> "idle", err |-> "none",
           before |-> [tree |-> {}, pidLink |-> NoLink]]

\* two processes, one for each hash, neither inside Build; the working
\* directory they share holds no image.<os>.<arch>.json
TmpIdle == [pc |-> [b \in {"h1", "h2"} |-> "idle"],
            i |-> [b \in {"h1", "h2"} |-> 1],
            sha |-> [b \in {"h1", "h2"} |-> <<>>],
            cwd |-> [i \in 1..4 |-> NoFile],
            blobs |-> {},
            writes |-> {}]

\* no NewJob call yet; the runs directory is empty, nothing listens
JobIdle == [runs |-> [k \in 1..4 |-> "none"], listening |-> {},
            port |-> <<"8", "0">>, pc |-> "idle", err |-> "none", k |-> 1,
            before |-> [k \in 1..4 |-> "none"]]

\* defaultRunPort
defaultRunPort == "8080"

\* no choosePort call yet; nothing listens on the host
PortIdle == [listening |-> {}, preferredPort |-> defaultRunPort,
             pc |-> "idle", result |-> ""]

\* no compiler started yet
GoBuildIdle == [f |-> [buildEnvs |-> <<>>], p |-> NoPlatform, home |-> <<>>,
                pc |-> "idle", env |-> <<>>]

\* no newData call yet, on an empty function root
WalkIdle == [root |-> {}, t |-> 1, pc |-> "idle", layer |-> <<>>]

\* the small specifications take no part in Spec, SpecOci and SpecPush
AuxIdle ==
    /\ sb = SbIdle
    /\ tmp = TmpIdle
    /\ walk = WalkIdle
    /\ gobuild = GoBuildIdle
    /\ job = JobIdle
    /\ port = PortIdle

\* ---- bookkeeping of the calls (not program state) -------------------------

NoCall == [pid |-> None]

\* Build of process p returns res. setup: setup succeeded, so teardown was
\* deferred; complete: teardown ran to its end; quiet: no other process took
\* a step during the call; touched: the call changed builds/last; swept: the
\* targets of the stale markers its teardown removed.
Return(p, hh, res, su, co, sw) ==
    [pid |-> p, hash |-> hh, result |-> res, setup |-> su, complete |-> co,
     quiet |-> (solo = p), touched |-> touched[p], swept |-> sw]

\* a step of process p that is not a return
Step(p) ==
    /\ solo' = IF solo = p THEN p ELSE None
    /\ returned' = NoCall
    /\ UNCHANGED <<ocivars, pushvars, auxvars>>

Results == {"ok", "BuildErr", "SymlinkErr", "ScaffoldErr", "ContainerizeErr",
            "LastLinkErr"}

TypeOK ==
    /\ alive \in [Pids -> BOOLEAN]
    /\ pc \in [Pids -> {"dead", "idle", "mkdir", "symlink", "scaffold",
                        "containerize", "index", "last_rm", "last_ln",
                        "td_rmpid", "td_sweep", "td_gc", "td_rm"}]
    /\ h \in [Pids -> Hashes \cup {None}]
    /\ err \in [Pids -> {"none", "ScaffoldErr", "ContainerizeErr", "LastLinkErr"}]
    /\ dd \in [Pids -> SUBSET Hashes]
    /\ pidLinks \in [Pids -> Hashes \cup {None}]
    /\ dirs \subseteq Hashes
    /\ index \subseteq dirs
    /\ last \in Hashes \cup {None}
    /\ touched \in [Pids -> BOOLEAN]
    /\ swept \in [Pids -> SUBSET Hashes]
    /\ solo \in Pids \cup {None}
    /\ \/ returned = NoCall
       \/ returned \in [pid : Pids, hash : Hashes, result : Results,
                        setup : BOOLEAN, complete : BOOLEAN,
                        quiet : BOOLEAN, touched : BOOLEAN,
                        swept : SUBSET Hashes]
    /\ builds \in 0..MaxBuilds
    /\ deaths \in 0..MaxDeaths

Init ==
    /\ alive = [p \in Pids |-> TRUE]
    /\ pc = [p \in Pids |-> "idle"]
    /\ h = [p \in Pids |-> None]
    /\ err = [p \in Pids |-> "none"]
    /\ dd = [p \in Pids |-> {}]
    /\ pidLinks = [p \in Pids |-> None]
    /\ dirs = {}
    /\ index = {}
    /\ last = None
    /\ touched = [p \in Pids |-> FALSE]
    /\ swept = [p \in Pids |-> {}]
    /\ solo = None
    /\ returned = NoCall
    /\ builds = 0
    /\ deaths = 0
    /\ OciIdle
    /\ PushIdle
    /\ AuxIdle

\* the locals of a Build call are gone once it has returned
Forget(p) ==
    /\ pc' = [pc EXCEPT ![p] = "idle"]
    /\ h' = [h EXCEPT ![p] = None]
    /\ err' = [err EXCEPT ![p] = "none"]
    /\ dd' = [dd EXCEPT ![p] = {}]
    /\ touched' = [touched EXCEPT ![p] = FALSE]
    /\ swept' = [swept EXCEPT ![p] = {}]
    /\ solo' = None
    /\ UNCHANGED <<ocivars, pushvars, auxvars>>

\* ---- Builder.Build: setup -----------------------------------------------

\* (variant: teardown deferred before setup, so that a rejected call runs
\* teardown's removals: its own marker, the stale markers, the directories
\* nothing refers to)
BuildDeferFirst(p, hh) ==
    /\ alive[p] /\ pc[p] = "idle"
    /\ builds < MaxBuilds
    /\ builds' = builds + 1
    /\ IF isActive(hh)
         THEN /\ returned' = [Return(p, hh, "BuildErr", FALSE, FALSE, {})
                                EXCEPT !.quiet = TRUE]
              /\ solo' = None
              /\ pidLinks' = [q \in Pids |-> IF q = p \/ ~alive[q] THEN None
                                             ELSE pidLinks[q]]
              /\ dirs' = {d \in dirs : last = d \/
                             \E q \in Pids \ {p} : alive[q] /\ pidLinks[q] = d}
              /\ index' = index \cap dirs'
              /\ UNCHANGED <<pc, h>>
         ELSE /\ pc' = [pc EXCEPT ![p] = "mkdir"]
              /\ h' = [h EXCEPT ![p] = hh]
              /\ solo' = p
              /\ returned' = NoCall
              /\ UNCHANGED <<pidLinks, dirs, index>>
    /\ UNCHANGED <<alive, err, dd, last, touched, swept, deaths>>
    /\ UNCHANGED <<ocivars, pushvars, auxvars>>

\* Build is called for a function whose fingerprint is hh; setup's first
\* statement decides whether a build of hh is in progress, and Build returns
\* setup's error at once.
Build(p, hh) ==
    /\ alive[p] /\ pc[p] = "idle"
    /\ builds < MaxBuilds
    /\ builds' = builds + 1
    /\ IF isActive(hh)
         THEN /\ returned' = [Return(p, hh, "BuildErr", FALSE, FALSE, {})
                                EXCEPT !.quiet = TRUE]
              /\ solo' = None
              /\ UNCHANGED <<pc, h>>
         ELSE /\ pc' = [pc EXCEPT ![p] = "mkdir"]
              /\ h' = [h EXCEPT ![p] = hh]
              /\ solo' = p
              /\ returned' = NoCall
    /\ UNCHANGED <<alive, err, dd, pidLinks, dirs, index, last, touched,
                   swept, deaths>>
    /\ UNCHANGED <<ocivars, pushvars, auxvars>>

\* (variant: os.Mkdir in place of os.MkdirAll, an error when the build
\* directory exists already)
SetupMkdirExclusive(p) ==
    /\ alive[p] /\ pc[p] = "mkdir"
    /\ IF h[p] \in dirs
         THEN /\ returned' = Return(p, h[p], "SymlinkErr", FALSE, FALSE, {})
              /\ Forget(p)
              /\ UNCHANGED dirs
         ELSE /\ dirs' = dirs \cup {h[p]}
              /\ pc' = [pc EXCEPT ![p] = "symlink"]
              /\ Step(p)
              /\ UNCHANGED <<h, err, dd, touched, swept>>
    /\ UNCHANGED <<alive, pidLinks, index, last, builds, deaths>>

\* os.MkdirAll(cfg.buildDir()), and the by-pid directory if missing
SetupMkdir(p) ==
    /\ alive[p] /\ pc[p] = "mkdir"
    /\ dirs' = dirs \cup {h[p]}
    /\ pc' = [pc EXCEPT ![p] = "symlink"]
    /\ Step(p)
    /\ UNCHANGED <<alive, h, err, dd, pidLinks, index, last,
                   touched, swept, builds, deaths>>

\* os.Symlink(target, cfg.pidLink()): fails when by-pid/<pid> exists already;
\* setup's error makes Build return before teardown is deferred.
SetupSymlink(p) ==
    /\ alive[p] /\ pc[p] = "symlink"
    /\ IF pidLinks[p] # None
         THEN /\ returned' = Return(p, h[p], "SymlinkErr", FALSE, FALSE, {})
              /\ Forget(p)
              /\ UNCHANGED pidLinks
         ELSE /\ pidLinks' = [pidLinks EXCEPT ![p] = h[p]]
              /\ pc' = [pc EXCEPT ![p] = "scaffold"]
              /\ Step(p)
              /\ UNCHANGED <<h, err, dd, touched, swept>>
    /\ UNCHANGED <<alive, dirs, index, last, builds, deaths>>

\* ---- Builder.Build: scaffolding, containerize, last link ----------------

\* fn.NewRepository and scaffolding.Write: either fails, or goes on
Scaffold(p) ==
    /\ alive[p] /\ pc[p] = "scaffold"
    /\ \/ /\ pc' = [pc EXCEPT ![p] = "containerize"]
          /\ UNCHANGED err
       \/ /\ pc' = [pc EXCEPT ![p] = "td_rmpid"]
          /\ err' = [err EXCEPT ![p] = "ScaffoldErr"]
    /\ Step(p)
    /\ UNCHANGED <<alive, h, dd, pidLinks, dirs, index, last,
                   touched, swept, builds, deaths>>

\* containerize up to the image index: MkdirAll(blobsDir) (re)creates the
\* build directory; layers, configs and manifests are written below it.
Containerize(p) ==
    /\ alive[p] /\ pc[p] = "containerize"
    /\ dirs' = dirs \cup {h[p]}
    /\ \/ /\ pc' = [pc EXCEPT ![p] = "index"]
          /\ UNCHANGED err
       \/ /\ pc' = [pc EXCEPT ![p] = "td_rmpid"]
          /\ err' = [err EXCEPT ![p] = "ContainerizeErr"]
    /\ Step(p)
    /\ UNCHANGED <<alive, h, dd, pidLinks, index, last,
                   touched, swept, builds, deaths>>

\* newImageIndex: os.Create(oci/index.json) fails if the directory is gone
WriteIndex(p) ==
    /\ alive[p] /\ pc[p] = "index"
    /\ IF h[p] \in dirs
         THEN /\ index' = index \cup {h[p]}
              /\ pc' = [pc EXCEPT ![p] = "last_rm"]
              /\ UNCHANGED err
         ELSE /\ pc' = [pc EXCEPT ![p] = "td_rmpid"]
              /\ err' = [err EXCEPT ![p] = "ContainerizeErr"]
              /\ UNCHANGED index
    /\ Step(p)
    /\ UNCHANGED <<alive, h, dd, pidLinks, dirs, last,
                   touched, swept, builds, deaths>>

\* updateLastLink, first statement: _ = os.RemoveAll(cfg.lastLink())
LastRemove(p) ==
    /\ alive[p] /\ pc[p] = "last_rm"
    /\ last' = None
    /\ touched' = [touched EXCEPT ![p] = touched[p] \/ last # None]
    /\ pc' = [pc EXCEPT ![p] = "last_ln"]
    /\ Step(p)
    /\ UNCHANGED <<alive, h, err, dd, pidLinks, dirs, index, swept,
                   builds, deaths>>

\* updateLastLink, second statement: os.Symlink(cfg.buildDir(), lastLink);
\* fails when builds/last exists (again)
LastSymlink(p) ==
    /\ alive[p] /\ pc[p] = "last_ln"
    /\ IF last # None
         THEN /\ err' = [err EXCEPT ![p] = "LastLinkErr"]
              /\ UNCHANGED <<last, touched>>
         ELSE /\ last' = h[p]
              /\ touched' = [touched EXCEPT ![p] = TRUE]
              /\ UNCHANGED err
    /\ pc' = [pc EXCEPT ![p] = "td_rmpid"]
    /\ Step(p)
    /\ UNCHANGED <<alive, h, dd, pidLinks, dirs, index, swept,
                   builds, deaths>>

\* ---- teardown (deferred) -------------------------------------------------

\* what Build returns once the deferred teardown has ended
Result(p) == IF err[p] = "none" THEN "ok" ELSE err[p]

\* (variant: the removal of the own marker left out)
TdRemovePidSkipped(p) ==
    /\ alive[p] /\ pc[p] = "td_rmpid"
    /\ pc' = [pc EXCEPT ![p] = "td_sweep"]
    /\ Step(p)
    /\ UNCHANGED <<alive, h, err, dd, pidLinks, dirs, index, last,
                   touched, swept, builds, deaths>>

\* _ = os.RemoveAll(cfg.pidLink())
TdRemovePid(p) ==
    /\ alive[p] /\ pc[p] = "td_rmpid"
    /\ pidLinks' = [pidLinks EXCEPT ![p] = None]
    /\ pc' = [pc EXCEPT ![p] = "td_sweep"]
    /\ Step(p)
    /\ UNCHANGED <<alive, h, err, dd, dirs, index, last,
                   touched, swept, builds, deaths>>

\* (variant: the loop's test inverted, the markers of existing processes)
StaleInverted == {q \in Pids : pidLinks[q] # None /\ processExists(q)}

\* the markers whose name is not the id of an existing process
Stale == {q \in Pids : pidLinks[q] # None /\ ~processExists(q)}

\* first loop of teardown: remove the by-pid links of processes that no
\* longer exist; a failing RemoveAll ends teardown at that entry.  The loop
\* is followed by dd, _ = os.ReadDir(cfg.buildsDir()), which reads what no
\* step of the loop writes.
TdSweep(p) ==
    /\ alive[p] /\ pc[p] = "td_sweep"
    /\ \/ /\ pidLinks' = [q \in Pids |-> IF q \in Stale THEN None ELSE pidLinks[q]]
          /\ swept' = [swept EXCEPT ![p] = {pidLinks[q] : q \in Stale}]
          /\ dd' = [dd EXCEPT ![p] = dirs]
          /\ pc' = [pc EXCEPT ![p] = "td_gc"]
          /\ Step(p)
          /\ UNCHANGED <<h, err, touched>>
       \/ \E f \in Stale :
          /\ pidLinks' = [q \in Pids |-> IF q \in Stale /\ q < f THEN None
                                         ELSE pidLinks[q]]
          /\ returned' = Return(p, h[p], Result(p), TRUE, FALSE,
                                {pidLinks[q] : q \in {r \in Stale : r < f}})
          /\ Forget(p)
    /\ UNCHANGED <<alive, dirs, index, last, builds, deaths>>

\* second loop of teardown, the two tests of one entry; teardown ends, and
\* Build returns, when no entry is left.
TdGcCheck(p) ==
    /\ alive[p] /\ pc[p] = "td_gc"
    /\ IF dd[p] = {}
         THEN /\ returned' = Return(p, h[p], Result(p), TRUE, TRUE, swept[p])
              /\ Forget(p)
         ELSE /\ IF Kept(First(dd[p]))
                   THEN /\ dd' = [dd EXCEPT ![p] = dd[p] \ {First(dd[p])}]
                        /\ UNCHANGED pc
                   ELSE /\ pc' = [pc EXCEPT ![p] = "td_rm"]
                        /\ UNCHANGED dd
              /\ Step(p)
              /\ UNCHANGED <<h, err, touched, swept>>
    /\ UNCHANGED <<alive, pidLinks, dirs, index, last, builds, deaths>>

\* (variant: the error of a failed removal returned as Build's result)
TdGcRemoveMasking(p) ==
    /\ alive[p] /\ pc[p] = "td_rm"
    /\ \/ /\ dirs' = dirs \ {First(dd[p])}
          /\ index' = index \ {First(dd[p])}
          /\ dd' = [dd EXCEPT ![p] = dd[p] \ {First(dd[p])}]
          /\ pc' = [pc EXCEPT ![p] = "td_gc"]
          /\ Step(p)
          /\ UNCHANGED <<h, err, touched, swept>>
       \/ /\ returned' = Return(p, h[p], "RemoveAllErr", TRUE, FALSE, swept[p])
          /\ Forget(p)
          /\ UNCHANGED <<dirs, index>>
    /\ UNCHANGED <<alive, pidLinks, last, builds, deaths>>

\* second loop of teardown: os.RemoveAll(dir) of the entry just tested; a
\* failing RemoveAll ends teardown.
TdGcRemove(p) ==
    /\ alive[p] /\ pc[p] = "td_rm"
    /\ \/ /\ dirs' = dirs \ {First(dd[p])}
          /\ index' = index \ {First(dd[p])}
          /\ dd' = [dd EXCEPT ![p] = dd[p] \ {First(dd[p])}]
          /\ pc' = [pc EXCEPT ![p] = "td_gc"]
          /\ Step(p)
          /\ UNCHANGED <<h, err, touched, swept>>
       \/ /\ returned' = Return(p, h[p], Result(p), TRUE, FALSE, swept[p])
          /\ Forget(p)
          /\ UNCHANGED <<dirs, index>>
    /\ UNCHANGED <<alive, pidLinks, last, builds, deaths>>

\* ---- the process table ---------------------------------------------------

\* the process ends at any point (exit after Build returned, or killed in
\* the middle of it): nothing of its on-disk state is cleaned up.
Die(p) ==
    /\ alive[p]
    /\ deaths < MaxDeaths
    /\ deaths' = deaths + 1
    /\ alive' = [alive EXCEPT ![p] = FALSE]
    /\ pc' = [pc EXCEPT ![p] = "dead"]
    /\ h' = [h EXCEPT ![p] = None]
    /\ err' = [err EXCEPT ![p] = "none"]
    /\ dd' = [dd EXCEPT ![p] = {}]
    /\ touched' = [touched EXCEPT ![p] = FALSE]
    /\ swept' = [swept EXCEPT ![p] = {}]
    /\ solo' = None
    /\ returned' = NoCall
    /\ UNCHANGED <<pidLinks, dirs, index, last, builds>>
    /\ UNCHANGED <<ocivars, pushvars, auxvars>>

\* a new process is given the id of one that ended (the OS reuses ids)
Spawn(p) ==
    /\ ~alive[p]
    /\ alive' = [alive EXCEPT ![p] = TRUE]
    /\ pc' = [pc EXCEPT ![p] = "idle"]
    /\ solo' = None
    /\ returned' = NoCall
    /\ UNCHANGED <<h, err, dd, pidLinks, dirs, index, last,
                   touched, swept, builds, deaths>>
    /\ UNCHANGED <<ocivars, pushvars, auxvars>>

Next ==
    \E p \in Pids :
        \/ \E hh \in Hashes : Build(p, hh)
        \/ SetupMkdir(p)
        \/ SetupSymlink(p)
        \/ Scaffold(p)
        \/ Containerize(p)
        \/ WriteIndex(p)
        \/ LastRemove(p)
        \/ LastSymlink(p)
        \/ TdRemovePid(p)
        \/ TdSweep(p)
        \/ TdGcCheck(p)
        \/ TdGcRemove(p)
        \/ Die(p)
        \/ Spawn(p)

Spec == Init /\ [][Next]_vars

\* the builders of Spec take no part in SpecOci
BuilderIdle ==
    /\ alive = [p \in Pids |-> TRUE]
    /\ pc = [p \in Pids |-> "idle"]
    /\ h = [p \in Pids |-> None]
    /\ err = [p \in Pids |-> "none"]
    /\ dd = [p \in Pids |-> {}]
    /\ pidLinks = [p \in Pids |-> None]
    /\ dirs = {}
    /\ index = {}
    /\ last = None
    /\ touched = [p \in Pids |-> FALSE]
    /\ swept = [p \in Pids |-> {}]
    /\ solo = None
    /\ returned = NoCall
    /\ builds = 0
    /\ deaths = 0

InitOci ==
    /\ BuilderIdle
    /\ PushIdle
    /\ AuxIdle
    /\ func \in Functions
    /\ clock = 1
    /\ cfg = NoCfg
    /\ cstep = "idle"
    /\ ociDir = FALSE
    /\ blobs = {}
    /\ indexJson = NoFile
    /\ ociLast = FALSE
    /\ ociMarker = FALSE
    /\ ociDone = <<>>

\* a step of containerize returns err; Build returns it through the deferred
\* teardown
Fail(e) ==
    /\ cfg' = [cfg EXCEPT !.err = e]
    /\ cstep' = "teardown"

\* time.Now() advances; Build reads it once, as its first statement, so the
\* advances during a call are left out
Tick ==
    /\ cstep = "idle"
    /\ clock < MaxClock
    /\ clock' = clock + 1
    /\ UNCHANGED <<vars, pushvars, auxvars, func, cfg, cstep, ociDir, blobs, indexJson,
                   ociLast, ociMarker, ociDone>>

\* the caller cancels the context of the Build in progress
Cancel ==
    /\ cstep # "idle"
    /\ cfg.ctx = "live"
    /\ cfg' = [cfg EXCEPT !.ctx = "done", !.doneAt = cstep, !.doneI = cfg.i]
    /\ UNCHANGED <<vars, pushvars, auxvars, func, clock, cstep, ociDir, blobs,
                   indexJson, ociLast, ociMarker, ociDone>>

\* Build up to the call of newData: cfg.t = time.Now(); setup creates the
\* build directory and the marker; scaffolding.Write; containerize creates
\* oci/blobs/sha256 and writes oci-layout.
OciBuild ==
    /\ cstep = "idle"
    /\ Len(ociDone) < MaxOciBuilds
    /\ ociDir' = TRUE
    /\ ociMarker' = TRUE
    /\ \E w \in Write(func) :
          /\ cfg' = [NoCfg EXCEPT !.t = clock, !.fresh = ~ociDir,
                                  !.scaffolded = w.written, !.err = w.err]
          /\ cstep' = IF w.err = <<>> THEN "data" ELSE "teardown"
    /\ UNCHANGED <<vars, pushvars, auxvars, func, clock, blobs, indexJson, ociLast,
                   ociDone>>

\* newData: filepath.Walk archives the first n entries and, when n is not
\* all of them, stops at an error, which newData does not look at; then the
\* archive is closed, measured and moved into blobs, or one of these fails
NewData ==
    /\ cstep = "data"
    /\ \E n \in 0..Len(SourceFiles) :
          \/ /\ blobs' = blobs \cup {Stored(Archived(cfg.t, n))}
             /\ cfg' = [cfg EXCEPT
                          !.dataDesc =
                             Descriptor("application/vnd.oci.image.layer.v1.tar+gzip",
                                        Archived(cfg.t, n), NoPlatform),
                          !.dataLayer = Archived(cfg.t, n),
                          !.walkErr = (n < Len(SourceFiles))]
             /\ cstep' = "image"
          \/ /\ cfg' = [cfg EXCEPT !.err = <<"data layer">>,
                                   !.walkErr = (n < Len(SourceFiles))]
             /\ cstep' = "teardown"
             /\ UNCHANGED blobs
    /\ UNCHANGED <<vars, pushvars, auxvars, func, clock, ociDir, indexJson, ociLast,
                   ociMarker, ociDone>>

\* (variant: the config written before the exec layer is built)
ImageBlobsConfigFirst(p, reached) ==
    LET exec     == ExecLayer(p, cfg.t)
        execDesc == Descriptor("application/vnd.oci.image.layer.v1.tar+gzip",
                               exec, p)
        conf     == newConfig(func, cfg.t, p, <<cfg.dataLayer, exec>>)
        confDesc == Descriptor("application/vnd.oci.image.config.v1+json",
                               conf, NoPlatform)
        manifest == Manifest(confDesc, cfg.dataDesc, execDesc)
    IN  [exec     |-> IF reached >= 2 THEN {Stored(exec)} ELSE {},
         config   |-> IF reached >= 1 THEN {Stored(conf)} ELSE {},
         manifest |-> IF reached >= 3 THEN {Stored(manifest)} ELSE {},
         desc     |-> Descriptor("application/vnd.oci.image.manifest.v1+json",
                                 manifest, p)]

\* the files one call of newImage moves into blobs when it gets as far as
\* `reached`: the exec layer, then the config, then the manifest
ImageBlobs(p, reached) ==
    LET exec     == ExecLayer(p, cfg.t)
        execDesc == Descriptor("application/vnd.oci.image.layer.v1.tar+gzip",
                               exec, p)
        conf     == newConfig(func, cfg.t, p, <<cfg.dataLayer, exec>>)
        confDesc == Descriptor("application/vnd.oci.image.config.v1+json",
                               conf, NoPlatform)
        manifest == Manifest(confDesc, cfg.dataDesc, execDesc)
    IN  [exec     |-> IF reached >= 1 THEN {Stored(exec)} ELSE {},
         config   |-> IF reached >= 2 THEN {Stored(conf)} ELSE {},
         manifest |-> IF reached >= 3 THEN {Stored(manifest)} ELSE {},
         desc     |-> Descriptor("application/vnd.oci.image.manifest.v1+json",
                                 manifest, p)]

\* (variant: the loop over the platforms going on after a failed newImage)
NewImageSkipFailed ==
    /\ cstep = "image"
    /\ LET p == DefaultPlatforms[cfg.i + 1]
           next == IF cfg.i + 1 = Len(DefaultPlatforms) THEN "index" ELSE "image"
       IN  \E reached \in 0..3 :
              LET w == ImageBlobs(p, reached)
              IN  /\ newLanguageLayerBuilder(func.runtime) = <<>> \/ reached = 0
                  /\ cfg.ctx = "live" \/ reached = 0
                  /\ blobs' = blobs \cup w.exec \cup w.config \cup w.manifest
                  /\ cfg' = [cfg EXCEPT !.i = cfg.i + 1,
                               !.imageDescs = IF reached = 3
                                                THEN Append(cfg.imageDescs, w.desc)
                                                ELSE cfg.imageDescs]
                  /\ cstep' = next
    /\ UNCHANGED <<vars, pushvars, auxvars, func, clock, ociDir, indexJson, ociLast,
                   ociMarker, ociDone>>

\* (variant: the compiler run without the build's context)
NewImageNoContext ==
    /\ cstep = "image"
    /\ LET p == DefaultPlatforms[cfg.i + 1]
           next == IF cfg.i + 1 = Len(DefaultPlatforms) THEN "index" ELSE "image"
       IN  IF newLanguageLayerBuilder(func.runtime) # <<>>
             THEN /\ Fail(newLanguageLayerBuilder(func.runtime))
                  /\ UNCHANGED blobs
             ELSE \E reached \in 0..3 :
                     LET w == ImageBlobs(p, reached)
                     IN  /\ blobs' = blobs \cup w.exec \cup w.config \cup w.manifest
                         /\ IF reached = 3
                              THEN /\ cfg' = [cfg EXCEPT !.i = cfg.i + 1,
                                                !.imageDescs =
                                                   Append(cfg.imageDescs, w.desc)]
                                   /\ cstep' = next
                              ELSE Fail(<<"image", p.os, p.architecture>>)
    /\ UNCHANGED <<vars, pushvars, auxvars, func, clock, ociDir, indexJson, ociLast,
                   ociMarker, ociDone>>

\* one pass of containerize's loop: newImage for the next platform.  It
\* returns the error of newLanguageLayerBuilder; or the compiler, started
\* with exec.CommandContext(cfg.ctx), fails because the context is done; or
\* newImage fails after `reached` of its three files; or it appends the
\* manifest's descriptor.
NewImage ==
    /\ cstep = "image"
    /\ LET p == DefaultPlatforms[cfg.i + 1]
           next == IF cfg.i + 1 = Len(DefaultPlatforms) THEN "index" ELSE "image"
       IN  IF newLanguageLayerBuilder(func.runtime) # <<>>
             THEN /\ Fail(newLanguageLayerBuilder(func.runtime))
                  /\ UNCHANGED blobs
             ELSE IF cfg.ctx = "done"
                    THEN /\ Fail(<<"context canceled">>)
                         /\ UNCHANGED blobs
                    ELSE \E reached \in 0..3 :
                            LET w == ImageBlobs(p, reached)
                            IN  /\ blobs' = blobs \cup w.exec \cup w.config
                                                  \cup w.manifest
                                /\ IF reached = 3
                                     THEN /\ cfg' = [cfg EXCEPT !.i = cfg.i + 1,
                                                       !.imageDescs =
                                                          Append(cfg.imageDescs,
                                                                 w.desc)]
                                          /\ cstep' = next
                                     ELSE Fail(<<"image", p.os, p.architecture>>)
    /\ UNCHANGED <<vars, pushvars, auxvars, func, clock, ociDir, indexJson, ociLast,
                   ociMarker, ociDone>>

\* newImageIndex: os.Create(oci/index.json) and the encoding of the index
NewImageIndex ==
    /\ cstep = "index"
    /\ \/ /\ indexJson' = ImageIndex(cfg.imageDescs)
          /\ cfg' = [cfg EXCEPT !.wrote = TRUE]
          /\ cstep' = "last"
       \/ /\ Fail(<<"index.json">>)
          /\ UNCHANGED indexJson
    /\ UNCHANGED <<vars, pushvars, auxvars, func, clock, ociDir, blobs, ociLast,
                   ociMarker, ociDone>>

\* updateLastLink, with no other process about
UpdateLastLink ==
    /\ cstep = "last"
    /\ ociLast' = TRUE
    /\ cfg' = [cfg EXCEPT !.updated = TRUE]
    /\ cstep' = "teardown"
    /\ UNCHANGED <<vars, pushvars, auxvars, func, clock, ociDir, blobs, indexJson,
                   ociMarker, ociDone>>

\* the deferred teardown and Build's return: the process's marker is removed
\* and with it the build directory, unless builds/last points at it
OciReturn ==
    /\ cstep = "teardown"
    /\ IF ociLast
         THEN UNCHANGED <<ociDir, blobs, indexJson>>
         ELSE /\ ociDir' = FALSE
              /\ blobs' = {}
              /\ indexJson' = NoFile
    /\ ociMarker' = FALSE
    /\ ociDone' = Append(ociDone, [err |-> cfg.err, t |-> cfg.t,
                                   fresh |-> cfg.fresh, wrote |-> cfg.wrote,
                                   data |-> cfg.dataDesc, index |-> indexJson',
                                   walkErr |-> cfg.walkErr])
    /\ cfg' = NoCfg
    /\ cstep' = "idle"
    /\ UNCHANGED <<vars, pushvars, auxvars, func, clock, ociLast>>

NextOci ==
    \/ Tick
    \/ Cancel
    \/ OciBuild
    \/ NewData
    \/ NewImage
    \/ NewImageIndex
    \/ UpdateLastLink
    \/ OciReturn

SpecOci == InitOci /\ [][NextOci]_allvars

\* ---- Pusher.Push ----------------------------------------------------------
\* A third specification, SpecPush, follows one Pusher through successive
\* Push calls for a function whose build state (the by-hash directories,
\* their index.json, builds/last) is any the builds can leave, with no build
\* running meanwhile.

\* name.ParseReference(f.Image): its error, "none" for nil
ParseReference(img) ==
    IF img = "" THEN "could not parse reference" ELSE "none"

\* (variant: os.Lstat in place of os.Stat, a dangling builds/last is found)
getLastBuildDirLstat ==
    IF last = None THEN "last build directory not found" ELSE "none"

\* getLastBuildDir: os.Stat follows builds/last and reports IsNotExist when
\* the link or its target is missing
getLastBuildDir ==
    IF last = None \/ last \notin dirs
      THEN "last build directory not found"
      ELSE "none"

\* layout.ImageIndexFromPath(<last>/oci) reads oci/index.json
ImageIndexFromPath ==
    IF last \in index THEN "none" ELSE "index.json not found"

\* ii.Digest() of the index of by-hash/d
IndexDigest(d) == <<"sha256", "index.json", d>>

\* the Push call in progress, or the next one
CurrentPush == Len(pushes) + 1

\* the builds have left some state behind; a Pusher was just constructed
InitPush ==
    /\ alive = [p \in Pids |-> TRUE]
    /\ pc = [p \in Pids |-> "idle"]
    /\ h = [p \in Pids |-> None]
    /\ err = [p \in Pids |-> "none"]
    /\ dd = [p \in Pids |-> {}]
    /\ pidLinks = [p \in Pids |-> None]
    /\ dirs \in SUBSET Hashes
    /\ index \in SUBSET dirs
    /\ last \in Hashes \cup {None}
    /\ touched = [p \in Pids |-> FALSE]
    /\ swept = [p \in Pids |-> {}]
    /\ solo = None
    /\ returned = NoCall
    /\ builds = 0
    /\ deaths = 0
    /\ OciIdle
    /\ image \in Images
    /\ ppc = "idle"
    /\ perr = "none"
    /\ pdigest = <<>>
    /\ pwrote = FALSE
    /\ pctx = {}
    /\ pdone = 0
    /\ handlers = {}
    /\ registry = {}
    /\ pushes = <<>>
    /\ AuxIdle

\* Push is called: go p.handleUpdates(ctx), and the send on p.done deferred
PushCall ==
    /\ ppc = "idle"
    /\ Len(pushes) < MaxPushes
    /\ handlers' = handlers \cup {CurrentPush}
    /\ ppc' = "parse"
    /\ perr' = "none"
    /\ pdigest' = <<>>
    /\ pwrote' = FALSE
    /\ UNCHANGED <<vars, ocivars, auxvars, image, pctx, pdone, registry, pushes>>

\* the caller cancels the context it gave to Push call n
PushCancel(n) ==
    /\ n \notin pctx
    /\ n <= Len(pushes) \/ (n = CurrentPush /\ ppc # "idle")
    /\ pctx' = pctx \cup {n}
    /\ UNCHANGED <<vars, ocivars, auxvars, image, ppc, perr, pdigest, pwrote, pdone,
                   handlers, registry, pushes>>

\* ref, err := name.ParseReference(f.Image)
PushParse ==
    /\ ppc = "parse"
    /\ perr' = ParseReference(image)
    /\ ppc' = IF ParseReference(image) = "none" THEN "lastdir" ELSE "defer"
    /\ UNCHANGED <<vars, ocivars, auxvars, image, pdigest, pwrote, pctx, pdone,
                   handlers, registry, pushes>>

\* buildDir, err := getLastBuildDir(f)
PushLastDir ==
    /\ ppc = "lastdir"
    /\ perr' = getLastBuildDir
    /\ ppc' = IF getLastBuildDir = "none" THEN "layout" ELSE "defer"
    /\ UNCHANGED <<vars, ocivars, auxvars, image, pdigest, pwrote, pctx, pdone,
                   handlers, registry, pushes>>

\* ii, err := layout.ImageIndexFromPath(filepath.Join(buildDir, "oci"))
PushLayout ==
    /\ ppc = "layout"
    /\ perr' = ImageIndexFromPath
    /\ ppc' = IF ImageIndexFromPath = "none" THEN "write" ELSE "defer"
    /\ UNCHANGED <<vars, ocivars, auxvars, image, pdigest, pwrote, pctx, pdone,
                   handlers, registry, pushes>>

\* (variant: a failed write followed by the removal of builds/last)
PushWriteIndexCleaning ==
    /\ ppc = "write"
    /\ pwrote' = TRUE
    /\ \/ /\ CurrentPush \notin pctx
          /\ registry' = registry \cup {[hash |-> last, complete |-> TRUE]}
          /\ ppc' = "digest"
          /\ UNCHANGED <<perr, last>>
       \/ /\ perr' = IF CurrentPush \in pctx THEN "context canceled"
                                             ELSE "transport"
          /\ registry' \in {registry,
                            registry \cup {[hash |-> last, complete |-> FALSE]}}
          /\ ppc' = "defer"
          /\ last' = None
    /\ UNCHANGED <<alive, pc, h, err, dd, pidLinks, dirs, index, touched,
                   swept, solo, returned, builds, deaths>>
    /\ UNCHANGED <<ocivars, auxvars, image, pdigest, pctx, pdone, handlers, pushes>>

\* err = remote.WriteIndex(ref, ii, p.remoteOptions(ctx)...): the index is
\* written to the registry, or the transport fails, or the context is done,
\* in both cases with some or none of it written
PushWriteIndex ==
    /\ ppc = "write"
    /\ pwrote' = TRUE
    /\ \/ /\ CurrentPush \notin pctx
          /\ registry' = registry \cup {[hash |-> last, complete |-> TRUE]}
          /\ ppc' = "digest"
          /\ UNCHANGED perr
       \/ /\ perr' = IF CurrentPush \in pctx THEN "context canceled"
                                             ELSE "transport"
          /\ registry' \in {registry,
                            registry \cup {[hash |-> last, complete |-> FALSE]}}
          /\ ppc' = "defer"
    /\ UNCHANGED <<vars, ocivars, auxvars, image, pdigest, pctx, pdone, handlers,
                   pushes>>

\* h, err := ii.Digest(); digest = h.String()
PushDigest ==
    /\ ppc = "digest"
    /\ pdigest' = IndexDigest(last)
    /\ ppc' = "defer"
    /\ UNCHANGED <<vars, ocivars, auxvars, image, perr, pwrote, pctx, pdone, handlers,
                   registry, pushes>>

\* the deferred p.done <- true, which waits while the channel is full, and
\* Push's return
PushReturn ==
    /\ ppc = "defer"
    /\ pdone = 0
    /\ pdone' = 1
    /\ pushes' = Append(pushes, [err |-> perr, digest |-> pdigest,
                                 wrote |-> pwrote])
    /\ ppc' = "idle"
    /\ UNCHANGED <<vars, ocivars, auxvars, image, perr, pdigest, pwrote, pctx,
                   handlers, registry>>

\* handleUpdates of Push call n: case <-p.done
HandlerDone(n) ==
    /\ n \in handlers
    /\ pdone = 1
    /\ pdone' = 0
    /\ handlers' = handlers \ {n}
    /\ UNCHANGED <<vars, ocivars, auxvars, image, ppc, perr, pdigest, pwrote, pctx,
                   registry, pushes>>

\* handleUpdates of Push call n: case <-ctx.Done()
HandlerCtx(n) ==
    /\ n \in handlers
    /\ n \in pctx
    /\ handlers' = handlers \ {n}
    /\ UNCHANGED <<vars, ocivars, auxvars, image, ppc, perr, pdigest, pwrote, pctx,
                   pdone, registry, pushes>>

NextPush ==
    \/ PushCall
    \/ \E n \in 1..MaxPushes : PushCancel(n)
    \/ PushParse
    \/ PushLastDir
    \/ PushLayout
    \/ PushWriteIndex
    \/ PushDigest
    \/ PushReturn
    \/ \E n \in 1..MaxPushes : HandlerDone(n)
    \/ \E n \in 1..MaxPushes : HandlerCtx(n)

SpecPush == InitPush /\ [][NextPush]_allvars

\* ---- SpecSetup ---------------------------------------------------------------
\* A fourth specification follows one Build call of one process in which
\* the fingerprint of the function may fail and in which a by-pid marker
\* named after the process may exist already (left by a killed process that
\* had the same id).  The tree below builds/by-hash is a set of paths, each
\* a sequence of names relative to builds/by-hash; <<>> is by-hash itself.

HashNames == {"h1", "h2"}

\* f.Fingerprint(false): a hash, or the empty string and an error
Fingerprints ==
    [value : HashNames, err : {FALSE}] \cup {[value |-> "", err |-> TRUE]}

\* buildConfig.hash: the fingerprint; its error is printed and dropped
hash(fp) == fp.value

\* path = filepath.Join: empty elements are ignored
path(names) == SelectSeq(names, LAMBDA n : n # "")

\* buildConfig.buildDir, ociDir, relative to builds/by-hash
buildDir(fp) == path(<<hash(fp)>>)
ociDirOf(fp) == path(<<hash(fp), "oci">>)

\* the path p is d or lies below d
Below(d, p) == Len(p) >= Len(d) /\ SubSeq(p, 1, Len(d)) = d

\* isLinkTo for a link with target t: both t and dir must exist to be
\* resolved by filepath.EvalSymlinks
sbIsLinkTo(st, t, dir) ==
    t # NoLink /\ t \in st.tree /\ dir \in st.tree /\ t = dir

\* isActive: the markers are the caller's own and that of one other
\* process; both processes exist
sbIsActive(st, dir) ==
    sbIsLinkTo(st, st.pidLink, dir) \/ sbIsLinkTo(st, st.other, dir)

\* a build directory as a Build leaves it: absent, empty (failed build kept
\* by a marker), or holding the OCI layout
BuildDirs(hh) ==
    { {}, {<<hh>>}, {<<hh>>, <<hh, "oci">>, <<hh, "oci", "index.json">>} }

notSb == <<vars, ocivars, pushvars, tmp, walk, gobuild, job, port>>

InitSetup ==
    /\ BuilderIdle /\ OciIdle /\ PushIdle
    /\ tmp = TmpIdle
    /\ walk = WalkIdle /\ gobuild = GoBuildIdle /\ job = JobIdle /\ port = PortIdle
    /\ \E fp \in Fingerprints, d1 \in BuildDirs("h1"), d2 \in BuildDirs("h2"),
          l \in {NoLink, <<"h1">>, <<"h2">>},
          m \in {NoLink, <<"h1">>, <<"h2">>},
          o \in {NoLink, <<"h2">>} :
         /\ l # NoLink => (l \o <<"oci", "index.json">>) \in d1 \cup d2
         /\ o # NoLink => o \in d2
         /\ LET t == IF d1 \cup d2 = {} THEN {} ELSE {<<>>} \cup d1 \cup d2
            IN  sb = [SbIdle EXCEPT
                        !.fp = fp, !.tree = t, !.lastLink = l,
                        !.pidLink = m, !.other = o,
                        !.before = [tree |-> t, pidLink |-> m]]

\* Build is called
SbBuild ==
    /\ sb.pc = "idle"
    /\ sb' = [sb EXCEPT !.pc = "setup",
                        !.before = [tree |-> sb.tree, pidLink |-> sb.pidLink]]
    /\ UNCHANGED notSb

\* setup: error if already in progress
SbSetupCheck ==
    /\ sb.pc = "setup"
    /\ sb' = IF sbIsActive(sb, buildDir(sb.fp))
               THEN [sb EXCEPT !.pc = "done", !.err = "BuildErr"]
               ELSE [sb EXCEPT !.pc = "mkdir"]
    /\ UNCHANGED notSb

\* setup: os.MkdirAll(cfg.buildDir(), 0774)
SbSetupMkdir ==
    /\ sb.pc = "mkdir"
    /\ sb' = [sb EXCEPT !.pc = "symlink",
                        !.tree = sb.tree \cup {<<>>, buildDir(sb.fp)}]
    /\ UNCHANGED notSb

\* setup: os.Symlink(target, cfg.pidLink()), which fails when the link
\* exists; Build returns that error before teardown is deferred
SbSetupSymlink ==
    /\ sb.pc = "symlink"
    /\ sb' = IF sb.pidLink # NoLink
               THEN [sb EXCEPT !.pc = "done", !.err = "SymlinkErr"]
               ELSE [sb EXCEPT !.pc = "scaffold", !.pidLink = buildDir(sb.fp)]
    /\ UNCHANGED notSb

\* scaffolding.Write(cfg.buildDir(), ...): the scaffolding and the link f
SbScaffold ==
    /\ sb.pc = "scaffold"
    /\ \/ sb' = [sb EXCEPT !.pc = "containerize",
                           !.tree = sb.tree \cup {buildDir(sb.fp) \o <<"f">>}]
       \/ sb' = [sb EXCEPT !.pc = "teardown", !.err = "ScaffoldErr"]
    /\ UNCHANGED notSb

\* containerize: the layout below cfg.ociDir()
SbContainerize ==
    /\ sb.pc = "containerize"
    /\ \/ sb' = [sb EXCEPT !.pc = "last",
                   !.tree = sb.tree \cup {ociDirOf(sb.fp),
                                          ociDirOf(sb.fp) \o <<"index.json">>}]
       \/ sb' = [sb EXCEPT !.pc = "teardown", !.err = "ContainerizeErr",
                   !.tree = sb.tree \cup {ociDirOf(sb.fp)}]
    /\ UNCHANGED notSb

\* updateLastLink
SbUpdateLastLink ==
    /\ sb.pc = "last"
    /\ sb' = [sb EXCEPT !.pc = "teardown", !.lastLink = buildDir(sb.fp)]
    /\ UNCHANGED notSb

\* the entries of builds/by-hash that teardown removes, the caller's marker
\* being gone
Garbage(st) ==
    LET gone == [st EXCEPT !.pidLink = NoLink]
    IN  {d \in st.tree : /\ Len(d) = 1
                         /\ ~sbIsLinkTo(gone, st.lastLink, d)
                         /\ ~sbIsActive(gone, d)}

\* the deferred teardown, no other process taking a step meanwhile:
\* os.RemoveAll of the marker and of every entry that is garbage
SbTeardown ==
    /\ sb.pc = "teardown"
    /\ sb' = [sb EXCEPT !.pc = "done", !.pidLink = NoLink,
                !.tree = {p \in sb.tree :
                            \A d \in Garbage(sb) : ~Below(d, p)}]
    /\ UNCHANGED notSb

NextSetup ==
    \/ SbBuild
    \/ SbSetupCheck
    \/ SbSetupMkdir
    \/ SbSetupSymlink
    \/ SbScaffold
    \/ SbContainerize
    \/ SbUpdateLastLink
    \/ SbTeardown

SpecSetup == InitSetup /\ [][NextSetup]_allvars


\* ---- SpecTmp -----------------------------------------------------------------
\* A fifth specification follows two processes that build two states of a
\* function (hashes h1 and h2) at the same time, started in the same working
\* directory, through the files containerize creates, writes and renames.
\* A file is named by its directory, the hash for by-hash/<hash> and "cwd"
\* for the working directory, and its path below it.

notTmp == <<vars, ocivars, pushvars, sb, walk, gobuild, job, port>>

\* the manifest newImage encodes for platform i in the build of hash b
TmpManifest(b, i) == [schemaVersion |-> 2, by |-> b, platform |-> i]

\* the process goes on to the position `to`, having written the files ff
TmpWrite(b, to, ff) ==
    /\ tmp' = [tmp EXCEPT !.pc[b] = to,
                          !.writes = @ \cup {[by |-> b, dir |-> f[1],
                                              name |-> f[2]] : f \in ff}]
    /\ UNCHANGED notTmp

\* filePath of newImage for platform i
ImageFile(i) ==
    <<"image", DefaultPlatforms[i].os, DefaultPlatforms[i].architecture,
      "json">>

InitTmp ==
    /\ BuilderIdle /\ OciIdle /\ PushIdle
    /\ sb = SbIdle /\ tmp = TmpIdle /\ job = JobIdle
    /\ walk = WalkIdle /\ gobuild = GoBuildIdle /\ port = PortIdle

\* Build, setup, scaffolding and the head of containerize
TmpBuild(b) ==
    /\ tmp.pc[b] = "idle"
    /\ TmpWrite(b, "data",
                {<<b, <<"f">>>>, <<b, <<"oci", "oci-layout">>>>})

\* newData: os.Create(tarPath), os.Rename(tarPath, blobPath)
TmpNewData(b) ==
    /\ tmp.pc[b] = "data"
    /\ TmpWrite(b, "exec",
                {<<b, <<"datalayer.tar.gz">>>>, <<b, <<"oci", "blobs">>>>})

\* newExecLayerGo: the tarball, the binary of go build, the rename
TmpExecLayer(b) ==
    /\ tmp.pc[b] = "exec"
    /\ TmpWrite(b, "config",
                {<<b, <<"execlayer.tar.gz">>>>, <<b, <<"result", "f">>>>,
                 <<b, <<"oci", "blobs">>>>})

\* newConfig: os.Create(path(cfg.buildDir(), "config.json")), os.Rename
TmpConfig(b) ==
    /\ tmp.pc[b] = "config"
    /\ TmpWrite(b, "manifest",
                {<<b, <<"config.json">>>>, <<b, <<"oci", "blobs">>>>})

\* newImage: os.Create(filePath) with the relative filePath
\* image.<os>.<arch>.json, enc.Encode(image), file.Close()
TmpManifestCreate(b) ==
    /\ tmp.pc[b] = "manifest"
    /\ tmp' = [tmp EXCEPT !.pc[b] = "sha",
                 !.cwd[tmp.i[b]] = TmpManifest(b, tmp.i[b]),
                 !.writes = @ \cup {[by |-> b, dir |-> "cwd",
                                     name |-> ImageFile(tmp.i[b])]}]
    /\ UNCHANGED notTmp

\* newImage: os.Open(filePath), v1.SHA256(file)
TmpManifestSHA(b) ==
    /\ tmp.pc[b] = "sha"
    /\ tmp' = IF tmp.cwd[tmp.i[b]] = NoFile
                THEN [tmp EXCEPT !.pc[b] = "failed"]
                ELSE [tmp EXCEPT !.pc[b] = "rename",
                                 !.sha[b] = SHA256(tmp.cwd[tmp.i[b]])]
    /\ UNCHANGED notTmp

\* newImage: os.Rename(filePath, blobPath), and the next platform
TmpManifestRename(b) ==
    /\ tmp.pc[b] = "rename"
    /\ tmp' = IF tmp.cwd[tmp.i[b]] = NoFile
                THEN [tmp EXCEPT !.pc[b] = "failed"]
                ELSE [tmp EXCEPT
                        !.pc[b] = IF tmp.i[b] < Len(DefaultPlatforms)
                                    THEN "exec" ELSE "index",
                        !.i[b] = IF tmp.i[b] < Len(DefaultPlatforms)
                                   THEN @ + 1 ELSE @,
                        !.cwd[tmp.i[b]] = NoFile,
                        !.blobs = @ \cup {[dir |-> b, name |-> tmp.sha[b],
                                           content |-> tmp.cwd[tmp.i[b]]]},
                        !.writes = @ \cup {[by |-> b, dir |-> b,
                                            name |-> <<"oci", "blobs">>]}]
    /\ UNCHANGED notTmp

\* newImageIndex: os.Create(path(cfg.ociDir(), "index.json"))
TmpImageIndex(b) ==
    /\ tmp.pc[b] = "index"
    /\ TmpWrite(b, "done", {<<b, <<"oci", "index.json">>>>})

NextTmp ==
    \E b \in HashNames :
        \/ TmpBuild(b)
        \/ TmpNewData(b)
        \/ TmpExecLayer(b)
        \/ TmpConfig(b)
        \/ TmpManifestCreate(b)
        \/ TmpManifestSHA(b)
        \/ TmpManifestRename(b)
        \/ TmpImageIndex(b)

SpecTmp == InitTmp /\ [][NextTmp]_allvars

\* ---- SpecJob -----------------------------------------------------------------
\* A sixth specification follows one NewJob call: the entries of the
\* function's runs directory, the TCP ports somebody listens on, and the
\* port given to NewJob.  A name is a sequence of characters.

notJob == <<vars, ocivars, pushvars, sb, tmp, walk, gobuild, port>>

\* the names an entry of the runs directory can have, in the order
\* os.ReadDir returns them (sorted by name)
JobNames == << <<"8", "0">>, <<"8", "1">>, <<"8", "2">>, <<"8", "x">> >>

Digits == <<"0", "1", "2", "3", "4", "5", "6", "7", "8", "9">>

\* strconv.Atoi of an unsigned name: err when the name is empty or holds a
\* character that is no digit, else its value n
RECURSIVE ParseDigits(_)
ParseDigits(name) ==
    IF name = <<>> THEN 0
    ELSE ParseDigits(SubSeq(name, 1, Len(name) - 1)) * 10
         + (CHOOSE d \in 1..10 : Digits[d] = name[Len(name)]) - 1
Atoi(name) ==
    IF name = <<>> \/ \E c \in 1..Len(name) :
                         \A d \in 1..10 : Digits[d] # name[c]
      THEN [err |-> TRUE, n |-> 0]
      ELSE [err |-> FALSE, n |-> ParseDigits(name)]

\* net.Listen("tcp", ":" + name) succeeds
CanListen(name) == Atoi(name).n \notin job.listening

InitJob ==
    /\ BuilderIdle /\ OciIdle /\ PushIdle
    /\ sb = SbIdle /\ tmp = TmpIdle
    /\ walk = WalkIdle /\ gobuild = GoBuildIdle /\ port = PortIdle
    /\ \E r \in [1..Len(JobNames) -> {"none", "dir", "file"}],
          l \in SUBSET {80, 81, 82},
          pt \in {<<>>, <<"8", "0">>, <<"8", "1">>, <<"8", "2">>} :
         job = [JobIdle EXCEPT !.runs = r, !.listening = l, !.port = pt,
                               !.before = r]

\* NewJob: port required
NewJob ==
    /\ job.pc = "idle"
    /\ job' = IF job.port = <<>>
                THEN [job EXCEPT !.pc = "done",
                                 !.err = "port required to create job"]
                ELSE [job EXCEPT !.pc = "cleanup"]
    /\ UNCHANGED notJob

\* cleanupJobDirs, one turn of its loop: the entry is skipped, or it is
\* removed and cleanupJobDirs returns
cleanupJobDirs ==
    /\ job.pc = "cleanup"
    /\ job.k <= Len(JobNames)
    /\ job' = IF \/ job.runs[job.k] # "dir"
                 \/ Atoi(JobNames[job.k]).err
                 \/ ~CanListen(JobNames[job.k])
                THEN [job EXCEPT !.k = @ + 1]
                ELSE [job EXCEPT !.runs[job.k] = "none", !.pc = "mkdir"]
    /\ UNCHANGED notJob

\* cleanupJobDirs: the loop is over
cleanupJobDirsEnd ==
    /\ job.pc = "cleanup"
    /\ job.k > Len(JobNames)
    /\ job' = [job EXCEPT !.pc = "mkdir"]
    /\ UNCHANGED notJob

\* os.MkdirAll(j.Dir(), os.ModePerm), which fails on a plain file
JobMkdirAll ==
    /\ job.pc = "mkdir"
    /\ LET d == CHOOSE k \in 1..Len(JobNames) : JobNames[k] = job.port
       IN  job' = IF job.runs[d] = "file"
                    THEN [job EXCEPT !.pc = "done", !.err = "not a directory"]
                    ELSE [job EXCEPT !.pc = "done", !.runs[d] = "dir"]
    /\ UNCHANGED notJob

NextJob ==
    \/ NewJob
    \/ cleanupJobDirs
    \/ cleanupJobDirsEnd
    \/ JobMkdirAll

SpecJob == InitJob /\ [][NextJob]_allvars

\* ---- SpecPort ----------------------------------------------------------------
\* A seventh specification follows one choosePort call on a host where
\* some TCP ports have a listener.

notPort == <<vars, ocivars, pushvars, sb, tmp, walk, gobuild, job>>

\* the TCP ports of the host
Ports == {"8080", "8081", "8082", "8083"}

InitPort ==
    /\ BuilderIdle /\ OciIdle /\ PushIdle
    /\ sb = SbIdle /\ tmp = TmpIdle /\ job = JobIdle
    /\ walk = WalkIdle /\ gobuild = GoBuildIdle
    /\ \E l \in SUBSET Ports, pp \in Ports :
          port = [PortIdle EXCEPT !.listening = l, !.preferredPort = pp]

\* choosePort, "Try preferred": net.DialTimeout to host:defaultRunPort; a
\* connection (err == nil) is closed and preferredPort returned
choosePortDial ==
    /\ port.pc = "idle"
    /\ port' = IF defaultRunPort \in port.listening
                 THEN [port EXCEPT !.pc = "done",
                                   !.result = port.preferredPort]
                 ELSE [port EXCEPT !.pc = "listen"]
    /\ UNCHANGED notPort

\* choosePort, "OS-chosen": net.Listen on host:"" binds a port the OS
\* picks among those without a listener, whose number is returned; when
\* Listen fails the fallback defaultRunPort is returned
choosePortListen ==
    /\ port.pc = "listen"
    /\ \/ \E p \in Ports \ port.listening :
             port' = [port EXCEPT !.pc = "done", !.result = p]
       \/ port' = [port EXCEPT !.pc = "done", !.result = defaultRunPort]
    /\ UNCHANGED notPort

NextPort ==
    \/ choosePortDial
    \/ choosePortListen

SpecPort == InitPort /\ [][NextPort]_allvars

\* ---- SpecEnvs ----------------------------------------------------------------
\* An eighth specification applies goBuildEnvs to a function and a
\* platform.  A string the code takes apart is a sequence of characters;
\* an element "NAME=value" of the environment is the pair <<NAME, value>>.

notGoBuild == <<vars, ocivars, pushvars, sb, tmp, walk, job, port>>

\* strings.TrimPrefix(str, prefix)
TrimPrefix(str, prefix) ==
    IF Len(str) >= Len(prefix) /\ SubSeq(str, 1, Len(prefix)) = prefix
      THEN SubSeq(str, Len(prefix) + 1, Len(str))
      ELSE str

\* Env.KeyValuePair: "name=value"
KeyValuePair(e) == <<e.name, e.value>>

\* f.Build.BuildEnvs as declared
BuildEnvLists ==
    LET a == [name |-> "A", value |-> <<"1">>]
        b == [name |-> "GOFLAGS", value |-> <<"-", "v">>]
    IN  { <<>>, <<a>>, <<a, b>>, <<b, a>> }

\* the platforms a build may be asked for
GoPlatforms ==
    [os : {"linux", "darwin"}, architecture : {"amd64", "arm64", "arm"},
     variant : {<<>>, <<"v", "7">>, <<"v", "3">>, <<"6">>}]

\* (variant: the variant passed on to GOARM as it is)
goBuildEnvsUntrimmed(f, p, home) ==
    << <<"HOME", home>>, <<"CGO_ENABLED", <<"0">>>>, <<"GOOS", p.os>>,
       <<"GOARCH", p.architecture>> >>
    \o (IF p.variant # <<>> /\ p.architecture = "arm"
          THEN << <<"GOARM", p.variant>> >>
        ELSE IF p.variant # <<>> /\ p.architecture = "amd64"
          THEN << <<"GOAMD64", p.variant>> >>
        ELSE <<>>)
    \o [k \in 1..Len(f.buildEnvs) |-> KeyValuePair(f.buildEnvs[k])]

\* goBuildEnvs; home is os.Getenv("HOME")
goBuildEnvs(f, p, home) ==
    << <<"HOME", home>>, <<"CGO_ENABLED", <<"0">>>>, <<"GOOS", p.os>>,
       <<"GOARCH", p.architecture>> >>
    \o (IF p.variant # <<>> /\ p.architecture = "arm"
          THEN << <<"GOARM", TrimPrefix(p.variant, <<"v">>)>> >>
        ELSE IF p.variant # <<>> /\ p.architecture = "amd64"
          THEN << <<"GOAMD64", p.variant>> >>
        ELSE <<>>)
    \o [k \in 1..Len(f.buildEnvs) |-> KeyValuePair(f.buildEnvs[k])]

InitEnvs ==
    /\ BuilderIdle /\ OciIdle /\ PushIdle
    /\ sb = SbIdle /\ tmp = TmpIdle /\ job = JobIdle /\ port = PortIdle
    /\ walk = WalkIdle
    /\ \E ee \in BuildEnvLists, pl \in GoPlatforms,
          hm \in {<<>>, <<"/", "r">>} :
         gobuild = [GoBuildIdle EXCEPT !.f = [buildEnvs |-> ee], !.p = pl,
                                       !.home = hm]

\* goBuild: cmd.Env = goBuildEnvs(cfg.f, p)
goBuild ==
    /\ gobuild.pc = "idle"
    /\ gobuild' = [gobuild EXCEPT
                     !.pc = "run",
                     !.env = goBuildEnvs(gobuild.f, gobuild.p, gobuild.home)]
    /\ UNCHANGED notGoBuild

NextEnvs == goBuild

SpecEnvs == InitEnvs /\ [][NextEnvs]_allvars

\* ---- SpecWalk ----------------------------------------------------------------
\* A ninth specification applies newData to a function root, a tree of
\* directories and regular files all of which can be read.  An entry is its
\* path below the root, a sequence of names.

notWalk == <<vars, ocivars, pushvars, sb, tmp, gobuild, job, port>>

\* oci.DefaultIgnored
DefaultIgnored == {".git", ".func", ".funcignore", ".gitignore"}

\* (variant: only version control metadata is ignored)
isIgnoredGitOnly(name) == name \in {".git", ".gitignore"}

\* isIgnored(info): info.Name() is one of DefaultIgnored
isIgnored(name) == name \in DefaultIgnored

\* the names of the entries, in the lexical order in which filepath.Walk
\* visits the entries of a directory
NameOrder ==
    <<".func", ".funcignore", ".git", ".gitignore", "builds", "go.mod", "pkg">>

\* the entries a function root may hold, and those that are directories
WalkEntries ==
    { <<".func">>, <<".func", "builds">>, <<".func", "builds", "go.mod">>,
      <<".funcignore">>, <<".git">>, <<".git", "pkg">>, <<".gitignore">>,
      <<"go.mod">>, <<"pkg">>, <<"pkg", ".git">>, <<"pkg", ".gitignore">>,
      <<"pkg", "builds">>, <<"pkg", "go.mod">> }
WalkDirs ==
    { <<".func">>, <<".func", "builds">>, <<".git">>, <<".git", "pkg">>,
      <<"pkg">>, <<"pkg", ".git">>, <<"pkg", "builds">> }

\* filepath.Walk with newData's callback, for the entries of directory d
\* from the k-th name on: the header names written, in order.  An ignored
\* entry writes nothing, and nothing below it when it is a directory
\* (filepath.SkipDir); header.Name = path("/func", p[len(cfg.f.Root):])
RECURSIVE Walk(_, _, _)
Walk(root, d, k) ==
    IF k > Len(NameOrder) THEN <<>>
    ELSE LET e == d \o <<NameOrder[k]>>
         IN  (IF e \notin root \/ isIgnored(NameOrder[k]) THEN <<>>
              ELSE << <<"/func">> \o e >>
                   \o (IF e \in WalkDirs THEN Walk(root, e, 1) ELSE <<>>))
             \o Walk(root, d, k + 1)

InitWalk ==
    /\ BuilderIdle /\ OciIdle /\ PushIdle
    /\ sb = SbIdle /\ tmp = TmpIdle /\ job = JobIdle /\ port = PortIdle
    /\ gobuild = GoBuildIdle
    /\ \E r \in SUBSET WalkEntries, tt \in 1..MaxClock :
         /\ \A e \in r : Len(e) > 1 =>
               /\ SubSeq(e, 1, Len(e) - 1) \in r
               /\ SubSeq(e, 1, Len(e) - 1) \in WalkDirs
         /\ walk = [WalkIdle EXCEPT !.root = r, !.t = tt]

\* newData: the header of /func, then the walk of cfg.f.Root; every header
\* with ModTime cfg.t
WalkNewData ==
    /\ walk.pc = "idle"
    /\ LET names == << <<"/func">> >> \o Walk(walk.root, <<>>, 1)
       IN  walk' = [walk EXCEPT
                      !.pc = "done",
                      !.layer = [k \in 1..Len(names) |->
                                    [name |-> names[k], modTime |-> walk.t]]]
    /\ UNCHANGED notWalk

NextWalk == WalkNewData

SpecWalk == InitWalk /\ [][NextWalk]_allvars

\* ---- vocabulary of the properties ----------------------------------------

\* builds/by-pid holds a marker named after a live process that resolves to
\* by-hash/d
LiveMarkerTo(d) ==
    \E q \in Pids : alive[q] /\ pidLinks[q] = d /\ d \in dirs

\* process q is inside Build between the creation of its marker and its
\* removal by its own teardown
Holding(q) ==
    alive[q] /\ pc[q] \in {"scaffold", "containerize", "index", "last_rm",
                           "last_ln", "td_rmpid"}

Returned == returned # NoCall

\* ---- C1 ------------------------------------------------------------------
\* C1: a Build call made while by-pid holds a marker named after a live
\* process that resolves to by-hash/<hash> returns the typed error BuildErr.
\* A call that has just gone on into setup found no such marker resolving to
\* its directory; a call that has just returned BuildErr found one and did
\* returned before setup created anything.
C1_InProgressReturnsBuildErr ==
    /\ \A p \in Pids : (pc[p] = "mkdir" /\ solo = p) => ~LiveMarkerTo(h[p])
    /\ (Returned /\ returned.result = "BuildErr")
          => (LiveMarkerTo(returned.hash) /\ ~returned.setup)

\* a second process is rejected while the first is inside its build
C1_Witness ==
    /\ Returned /\ returned.result = "BuildErr"
    /\ \E q \in Pids \ {returned.pid} :
          Holding(q) /\ h[q] = returned.hash /\ pidLinks[q] = returned.hash

\* ---- C2 ------------------------------------------------------------------
\* C2: at every moment at most one live process inside Build has a by-pid
\* marker resolving to a given by-hash directory.
C2_AtMostOneBuilderPerDirectory ==
    \A d \in Hashes :
        Cardinality({q \in Pids : Holding(q) /\ pidLinks[q] = d /\ d \in dirs}) <= 1

\* ---- C3 ------------------------------------------------------------------
\* C3: the step in which Build is rejected as build-in-progress changes
\* nothing on disk: no by-hash directory, no index, no by-pid marker, not the
\* last pointer; and the rejected process is not left inside teardown.
C3_RejectionChangesNothing ==
    [][ (returned' # NoCall /\ returned'.result = "BuildErr")
          => /\ pidLinks' = pidLinks
             /\ dirs' = dirs
             /\ index' = index
             /\ last' = last
             /\ pc'[returned'.pid] = "idle"
      ]_vars

\* a call was rejected while the disk held something a teardown would have
\* removed: the caller's own marker, a stale marker, or an unreferenced
\* directory
C3_Witness ==
    /\ Returned /\ returned.result = "BuildErr"
    /\ \/ pidLinks[returned.pid] # None
       \/ \E q \in Pids : pidLinks[q] # None /\ ~alive[q]
       \/ \E d \in dirs : last # d /\ ~LiveMarkerTo(d)

\* ---- C4 ------------------------------------------------------------------
\* C4: a Build is rejected as in-progress only while another live process
\* is inside a build of that hash, holding its marker: once the process that
\* held the marker has ended its build in any way, its marker blocks no one.
C4_OnlyARunningBuildBlocks ==
    (Returned /\ returned.result = "BuildErr")
        => \E q \in Pids \ {returned.pid} :
              Holding(q) /\ pidLinks[q] = returned.hash

\* ---- C5 ------------------------------------------------------------------
\* C5: when Build returns on any exit path after setup succeeded (any result
\* but setup's two errors), teardown has run and the calling process's own
\* by-pid marker does not exist.
C5_OwnMarkerGoneOnReturn ==
    (Returned /\ returned.result \notin {"BuildErr", "SymlinkErr"})
        => /\ returned.setup
           /\ pidLinks[returned.pid] = None

\* a failed containerization has returned
C5_Witness ==
    /\ Returned /\ returned.result = "ContainerizeErr"
    /\ pidLinks[returned.pid] = None

\* ---- C6 ------------------------------------------------------------------
\* C6: a Build call that returns an error has not changed builds/last.
C6_ErrorLeavesLastAlone ==
    (Returned /\ returned.result # "ok") => ~returned.touched

\* ---- C7 ------------------------------------------------------------------
\* C7: repointing is atomic: a process that is between the two statements of
\* updateLastLink, having found builds/last present, has not left a state in
\* which builds/last is absent.
C7_LastNeverAbsentDuringUpdate ==
    \A p \in Pids : (pc[p] = "last_ln" /\ touched[p]) => last # None

\* ---- C8 ------------------------------------------------------------------
\* C8: when Build returns success and no other process took a step during
\* the call, builds/last is a link to by-hash/<hash> of the function just
\* built, that directory exists and holds oci/index.json.
C8_LastPointsAtTheBuild ==
    (Returned /\ returned.result = "ok" /\ returned.quiet)
        => /\ last = returned.hash
           /\ returned.hash \in dirs
           /\ returned.hash \in index

\* a successful undisturbed build, after an earlier call, whose teardown ran
\* to its end
C8_Witness ==
    /\ Returned /\ returned.result = "ok" /\ returned.quiet
    /\ returned.complete
    /\ builds > 1

C11_Independence ==
    [][ /\ \A p \in Pids :
              (err[p] = "none" /\ err'[p] = "LastLinkErr") => last = h[p]
        /\ \A p \in Pids : \A q \in Pids \ {p} :
              ( /\ pc[p] = "td_rm" /\ pc'[p] # "td_rm"
                /\ h[p] # h[q]
                /\ Holding(q) /\ h[q] \in dirs /\ alive'[q] )
                 => h[q] \in dirs' ]_vars

C24_TeardownNeverMasks ==
    [][ \A p \in Pids :
           /\ ( /\ pc[p] \in {"td_rmpid", "td_sweep", "td_gc", "td_rm"}
                /\ pc'[p] \in {"td_rmpid", "td_sweep", "td_gc", "td_rm"} )
                 => err'[p] = err[p]
           /\ (returned' # NoCall /\ returned'.pid = p /\ returned'.setup)
                 => /\ pc[p] \in {"td_sweep", "td_gc", "td_rm"}
                    /\ returned'.result = Result(p) ]_vars

\* a successful build has returned success although a removal of its
\* teardown failed
C24_Witness ==
    /\ Returned /\ returned.setup /\ ~returned.complete
    /\ returned.result = "ok"
    /\ last = returned.hash

\* ---- C29 -----------------------------------------------------------------
\* C29: no step of another process removes the by-hash directory of a live
\* process that is inside its build, from the creation of the directory to
\* the start of its own teardown.
C29_RunningBuildKeepsItsDirectory ==
    [][ \A q \in Pids :
           ( /\ alive[q] /\ alive'[q]
             /\ pc[q] \in {"symlink", "scaffold", "containerize", "index",
                           "last_rm", "last_ln"}
             /\ pc'[q] = pc[q]
             /\ h[q] \in dirs )
              => h[q] \in dirs' ]_vars

\* ---- C30 -----------------------------------------------------------------
\* C30: in every state builds/last is absent or points at a by-hash
\* directory that exists and holds oci/index.json.
C30_LastResolvesToCompleteBuild ==
    last # None => (last \in dirs /\ last \in index)

\* ---- vocabulary of the properties of SpecOci -----------------------------

\* a Build call has just returned; LastDone is that call
Done == cstep = "idle" /\ ociDone # <<>>
LastDone == ociDone[Len(ociDone)]
Succeeded == Done /\ LastDone.err = <<>>

\* descriptor d names a file of blobs/sha256 whose name is the SHA-256 of
\* its bytes and whose size is the descriptor's
ValidDesc(d) ==
    \E b \in blobs : /\ b.name = d.digest
                     /\ SHA256(b.content) = b.name
                     /\ Size(b.content) = d.size

\* the bytes of the file of blobs/sha256 that descriptor d names
ContentOf(d) == (CHOOSE b \in blobs : b.name = d.digest).content

\* the files of blobs/sha256 of one kind
BlobsOfKind(k) == {b \in blobs : b.content.kind = k}

\* ---- C13 -----------------------------------------------------------------
\* C13: no partial index.  The step of a Build that writes index.json is
\* taken only when newImage has stored the manifest of every platform of the
\* list, in the list's order; index.json gets new content by no other step;
\* and a Build that returns an error has written no index.json.
C13_NoPartialIndex ==
    /\ [][ /\ (cfg'.wrote /\ ~cfg.wrote)
                => /\ Len(cfg.imageDescs) = Len(DefaultPlatforms)
                   /\ \A j \in DOMAIN cfg.imageDescs :
                         /\ cfg.imageDescs[j].platform = DefaultPlatforms[j]
                         /\ ValidDesc(cfg.imageDescs[j])
           /\ (indexJson' # indexJson /\ indexJson' # NoFile)
                => (cfg'.wrote /\ ~cfg.wrote) ]_allvars
    /\ []( (Done /\ LastDone.err # <<>>) => ~LastDone.wrote )

\* a Build failed in newImage for a darwin platform, after the manifests of
\* the linux platforms were stored, and wrote no index
C13_Witness ==
    /\ Done /\ ~LastDone.wrote
    /\ Len(LastDone.err) = 3 /\ LastDone.err[1] = "image"
    /\ LastDone.err[2] = "darwin"
    /\ BlobsOfKind("manifest") # {}

\* ---- C14 -----------------------------------------------------------------
\* C14: layout validity.  When Build has returned success, index.json has
\* schemaVersion 2 and lists one manifest per platform of the list, in order,
\* and every descriptor reachable from it (the manifests, each manifest's
\* config and its two layers) names a file of blobs/sha256 whose name is the
\* SHA-256 of its bytes and whose size is the descriptor's.
C14_LayoutValid ==
    Succeeded =>
        /\ indexJson # NoFile
        /\ indexJson.schemaVersion = 2
        /\ Len(indexJson.manifests) = Len(DefaultPlatforms)
        /\ \A j \in DOMAIN indexJson.manifests :
              /\ indexJson.manifests[j].platform = DefaultPlatforms[j]
              /\ ValidDesc(indexJson.manifests[j])
              /\ ValidDesc(ContentOf(indexJson.manifests[j]).config)
              /\ \A l \in {1, 2} :
                    ValidDesc(ContentOf(indexJson.manifests[j]).layers[l])

\* a successful build into a directory an earlier build had left
C14_Witness ==
    /\ Succeeded /\ ~LastDone.fresh
    /\ indexJson = LastDone.index
    /\ BlobsOfKind("manifest") # {}

\* ---- C15 -----------------------------------------------------------------
\* C15: unsupported runtime.  For a function whose runtime is not go, every
\* Build returns an error; unless writing the data layer failed before, it is
\* the error of newLanguageLayerBuilder, which for a runtime the switch does
\* not know carries the runtime's name; the Build wrote no index.json,
\* builds/last was not created, and the build directory is gone when Build
\* returns.
C15_UnsupportedRuntime ==
    (Done /\ func.runtime # "go") =>
        /\ LastDone.err # <<>>
        /\ LastDone.data # NoDesc
              => /\ LastDone.err = newLanguageLayerBuilder(func.runtime)
                 /\ func.runtime \notin {"python", "node", "rust"}
                       => \E j \in DOMAIN LastDone.err :
                              LastDone.err[j] = func.runtime
        /\ ~LastDone.wrote
        /\ indexJson = NoFile
        /\ ~ociLast
        /\ ~ociDir

\* the second Build in succession of a function of an unrecognized runtime
\* has returned
C15_Witness ==
    /\ Done /\ func.runtime = "quarkus"
    /\ Len(ociDone) = 2
    /\ LastDone.data # NoDesc

\* ---- C17 -----------------------------------------------------------------
\* C17: determinism.  Any two successful builds of the unchanged source,
\* each of which archived every file of it, have data layers of the same
\* digest and the same index.json.
C17_Deterministic ==
    \A a \in DOMAIN ociDone : \A b \in DOMAIN ociDone :
        (/\ ociDone[a].err = <<>> /\ ociDone[b].err = <<>>
         /\ ~ociDone[a].walkErr /\ ~ociDone[b].walkErr)
            => /\ ociDone[a].data.digest = ociDone[b].data.digest
               /\ ociDone[a].index = ociDone[b].index

\* ---- C18 -----------------------------------------------------------------
\* C18: when Build has returned success, no Build so far having met an error
\* in its walk of the source, blobs/sha256 holds exactly one data layer and
\* one exec layer, one config and one manifest per platform, and index.json
\* has one entry per platform, carrying its os and architecture.
C18_ExactBlobs ==
    (Succeeded /\ \A a \in DOMAIN ociDone : ~ociDone[a].walkErr) =>
        /\ Cardinality(BlobsOfKind("data")) = 1
        /\ Cardinality(BlobsOfKind("exec")) = Len(DefaultPlatforms)
        /\ Cardinality(BlobsOfKind("config")) = Len(DefaultPlatforms)
        /\ Cardinality(BlobsOfKind("manifest")) = Len(DefaultPlatforms)
        /\ Len(indexJson.manifests) = Len(DefaultPlatforms)
        /\ \A j \in DOMAIN indexJson.manifests :
              /\ indexJson.manifests[j].platform.os = DefaultPlatforms[j].os
              /\ indexJson.manifests[j].platform.architecture
                    = DefaultPlatforms[j].architecture

\* ---- C19 -----------------------------------------------------------------
\* C19: when Build has returned success, the config of every manifest listed
\* in index.json has an Env that holds every declared variable of the
\* function and a variable named FUNC_CREATED.
C19_EnvHasFuncCreated ==
    Succeeded =>
        \A j \in DOMAIN indexJson.manifests :
            LET c == ContentOf(ContentOf(indexJson.manifests[j]).config)
            IN  /\ \A e \in DOMAIN func.envs :
                      \E k \in DOMAIN c.config.Env : c.config.Env[k] = func.envs[e]
                /\ \E k \in DOMAIN c.config.Env :
                      c.config.Env[k][1] = "FUNC_CREATED"

\* ---- C20 -----------------------------------------------------------------
\* C20: every image config in blobs/sha256 has Cmd ["/func/f"], WorkingDir
\* "/func/", StopSignal "SIGKILL", the one exposed port 8080/tcp, the os,
\* architecture and variant of a platform of the list, and as Volumes the set
\* of the paths of the declared volumes that have a path; and the config of
\* the j-th manifest of index.json is that of the j-th platform.
C20_ConfigFields ==
    /\ \A b \in BlobsOfKind("config") :
          /\ b.content.config.Cmd = <<"/func/f">>
          /\ b.content.config.WorkingDir = "/func/"
          /\ b.content.config.StopSignal = "SIGKILL"
          /\ b.content.config.ExposedPorts = {"8080/tcp"}
          /\ b.content.config.Volumes
                = {func.volumes[j] : j \in DOMAIN func.volumes} \ {NoPath}
          /\ \E j \in DOMAIN DefaultPlatforms :
                /\ b.content.os = DefaultPlatforms[j].os
                /\ b.content.architecture = DefaultPlatforms[j].architecture
                /\ b.content.variant = DefaultPlatforms[j].variant
    /\ Succeeded =>
          \A j \in DOMAIN indexJson.manifests :
              LET c == ContentOf(ContentOf(indexJson.manifests[j]).config)
              IN  /\ c.os = DefaultPlatforms[j].os
                  /\ c.architecture = DefaultPlatforms[j].architecture
                  /\ c.variant = DefaultPlatforms[j].variant

\* a successful build of a function that declares a volume without a path
\* and one with a path
C20_Witness ==
    /\ Succeeded
    /\ Len(func.volumes) = 2
    /\ func.volumes[1] = NoPath /\ func.volumes[2] = "/a"
    /\ Cardinality(BlobsOfKind("config")) >= Len(DefaultPlatforms)

\* ---- C23 -----------------------------------------------------------------
\* C23: a Build during which the walk of the source tree met an error
\* (reading a directory, making the header of an entry, opening or copying a
\* file) returns an error and has written no index.json.
C23_WalkFailureIsFatal ==
    (Done /\ LastDone.walkErr) => (LastDone.err # <<>> /\ ~LastDone.wrote)

C26_ScaffoldingFailureStopsBuild ==
    cstep \in {"data", "image", "index", "last"}
        => (signature(func) = <<>> /\ cfg.scaffolded)

\* ---- C27 -----------------------------------------------------------------
\* C27: order within a Build.  Every manifest in blobs/sha256 names a config,
\* a data layer and an exec layer that are in blobs/sha256; every config
\* there lists the diffIDs of a data layer and of an exec layer of its
\* platform that are there; the manifests gathered so far are those of the
\* first platforms of the list, in order; and a step of the loop adds files
\* of the next platform of the list only.
C27_StoredInOrder ==
    /\ [](  /\ \A m \in BlobsOfKind("manifest") :
                  /\ ValidDesc(m.content.config)
                  /\ \A l \in DOMAIN m.content.layers :
                        ValidDesc(m.content.layers[l])
            /\ \A c \in BlobsOfKind("config") :
                  /\ \E d \in BlobsOfKind("data") :
                        DiffID(d.content) = c.content.rootfs.diff_ids[1]
                  /\ \E e \in BlobsOfKind("exec") :
                        /\ DiffID(e.content) = c.content.rootfs.diff_ids[2]
                        /\ e.content.os = c.content.os
                        /\ e.content.architecture = c.content.architecture
            /\ Len(cfg.imageDescs) = cfg.i
            /\ \A j \in DOMAIN cfg.imageDescs :
                  cfg.imageDescs[j].platform = DefaultPlatforms[j] )
    /\ [][ cstep = "image"
              => /\ cfg'.i \in {cfg.i, cfg.i + 1}
                 /\ \A b \in blobs' \ blobs :
                       /\ b.content.kind \in {"exec", "config", "manifest"}
                       /\ b.content.kind \in {"exec", "config"}
                             => /\ b.content.os = DefaultPlatforms[cfg.i + 1].os
                                /\ b.content.architecture
                                      = DefaultPlatforms[cfg.i + 1].architecture
         ]_allvars

\* newImage failed for the third platform between its config and its
\* manifest: the exec layer and the config of that platform are in blobs,
\* two manifests were gathered
C27_Witness ==
    /\ cstep = "teardown" /\ cfg.fresh /\ cfg.i = 2
    /\ cfg.err = <<"image", "darwin", "amd64">>
    /\ Cardinality(BlobsOfKind("config")) = 3
    /\ Cardinality(BlobsOfKind("manifest")) = 2

PushReturned == ppc = "idle" /\ pushes # <<>>
LastPush == pushes[Len(pushes)]

\* ---- C21 -----------------------------------------------------------------
\* C21: Push for a function whose builds/last is absent or dangling returns
\* the error of getLastBuildDir, "last build directory not found", and no
\* digest, and has not called the registry.
C21_NoLastBuildAlwaysReported ==
    (PushReturned /\ (last = None \/ last \notin dirs))
        => /\ LastPush.err = "last build directory not found"
           /\ LastPush.digest = <<>>
           /\ ~LastPush.wrote
           /\ registry = {}

\* C21 as it holds: the same for a function whose image name parses as a
\* reference.
C21_NoLastBuildReported ==
    (PushReturned /\ ParseReference(image) = "none"
                  /\ (last = None \/ last \notin dirs))
        => /\ LastPush.err = "last build directory not found"
           /\ LastPush.digest = <<>>
           /\ ~LastPush.wrote
           /\ registry = {}

\* the second Push in succession for a function whose builds/last dangles
C21_Witness ==
    /\ PushReturned /\ Len(pushes) = 2
    /\ ParseReference(image) = "none"
    /\ last # None /\ last \notin dirs
    /\ LastPush.err = "last build directory not found"

\* ---- C22 -----------------------------------------------------------------
\* C22: no step of Push, of its progress handler or of the cancellation of
\* its context changes the by-hash directories, their index.json and blobs,
\* the by-pid markers or builds/last; so after a Push that failed in the
\* write to the registry, builds/last still resolves to a directory holding
\* the index the Push read.
C22_PushReadsOnly ==
    /\ [][ /\ fsvars' = fsvars
           /\ <<ociDir, blobs, indexJson, ociLast, ociMarker>>'
                 = <<ociDir, blobs, indexJson, ociLast, ociMarker>> ]_allvars
    /\ [](  (PushReturned /\ LastPush.wrote)
              => (getLastBuildDir = "none" /\ ImageIndexFromPath = "none") )

\* a Push failed in the transport and the next Push of the same build
\* succeeded
C22_Witness ==
    /\ PushReturned /\ Len(pushes) = 2
    /\ pushes[1].err = "transport"
    /\ pushes[2].err = "none" /\ pushes[2].digest = IndexDigest(last)
    /\ [hash |-> last, complete |-> TRUE] \in registry

\* ---- C34 -----------------------------------------------------------------
\* C34: Push never waits forever at its deferred send on p.done: whenever a
\* Push has reached the send, either the channel (capacity 1) has room, or a
\* progress handler is still running that can receive from it.  Without
\* either, no step of the Pusher can ever empty the channel and the Push
\* does not return.
C34_PushAlwaysReturns ==
    ppc = "defer" => (pdone = 0 \/ handlers # {})

\* ---- C31 -----------------------------------------------------------------
\* C31: a Build whose fingerprint failed never uses builds/by-hash itself as
\* its build directory (no marker and no builds/last pointing at it, no
\* layout written straight into it), returns an error, and leaves every
\* path in place that was there before the call.
C31_FingerprintFailureIsAnError ==
    sb.fp.err =>
        /\ sb.pidLink # <<>>
        /\ sb.lastLink # <<>>
        /\ <<"oci">> \notin sb.tree
        /\ sb.pc = "done" => (sb.err # "none" /\ sb.before.tree \subseteq sb.tree)

\* ---- C32 -----------------------------------------------------------------
\* C32: when Build has returned an error of setup (the fingerprint having
\* been computed), every by-hash path and the marker of the process are
\* those that were there before the call.
C32_FailedSetupLeavesNothing ==
    (sb.pc = "done" /\ sb.err \in {"BuildErr", "SymlinkErr"} /\ ~sb.fp.err)
        => (sb.tree \subseteq sb.before.tree /\ sb.pidLink = sb.before.pidLink)

\* ---- C33 -----------------------------------------------------------------
\* C33: every file a build creates or replaces lies below the by-hash
\* directory of its own hash, so no file is written by both of two
\* concurrent builds of different hashes.
C33_WritesStayInOwnDirectory ==
    /\ \A w \in tmp.writes : w.dir = w.by
    /\ \A w1, w2 \in tmp.writes :
          (w1.dir = w2.dir /\ w1.name = w2.name) => w1.by = w2.by

\* ---- C37 -----------------------------------------------------------------
\* C37: after a NewJob that returned no error, the only directory of the
\* runs directory that is named after an integer port nobody listens on is
\* the new job's own; the directories of ports in use, the directories with
\* other names and the plain files are as they were; a NewJob with an empty
\* port returns an error and changes nothing.
C37_NoOrphansAfterNewJob ==
    job.pc = "done" =>
      /\ job.err = "none" =>
           \A k \in 1..Len(JobNames) :
              /\ ( /\ job.runs[k] = "dir"
                   /\ ~Atoi(JobNames[k]).err
                   /\ CanListen(JobNames[k]) ) => JobNames[k] = job.port
              /\ ( /\ JobNames[k] # job.port
                   /\ \/ job.before[k] = "file"
                      \/ Atoi(JobNames[k]).err
                      \/ ~CanListen(JobNames[k]) ) => job.runs[k] = job.before[k]
      /\ job.port = <<>> => (job.err # "none" /\ job.runs = job.before)

\* ---- C38 -----------------------------------------------------------------
\* C38: when the preferred port has a listener, choosePort returns another
\* port, one without a listener; when the preferred port has none,
\* choosePort returns the preferred port.
C38_ChoosesUnusedPort ==
    port.pc = "done" =>
        IF port.preferredPort \in port.listening
          THEN port.result # port.preferredPort
               /\ port.result \notin port.listening
          ELSE port.result = port.preferredPort

\* ---- C36 -----------------------------------------------------------------
\* C36: the environment of the compiler starts with HOME, CGO_ENABLED=0,
\* GOOS=<os>, GOARCH=<architecture>; it ends with the declared build envs
\* in their order; between the two stands nothing, except GOARM=<variant
\* less its leading "v"> when the variant is set and the architecture is
\* arm, and GOAMD64=<variant> when the variant is set and the architecture
\* is amd64.
C36_CompilerEnvironment ==
    gobuild.pc = "run" =>
      LET env == gobuild.env
          pl == gobuild.p
          decl == gobuild.f.buildEnvs
          extra == Len(env) - 4 - Len(decl)
          set == pl.variant # <<>>
      IN  /\ Len(env) >= 4 + Len(decl)
          /\ env[1][1] = "HOME" /\ env[1][2] = gobuild.home
          /\ env[2] = <<"CGO_ENABLED", <<"0">>>>
          /\ env[3] = <<"GOOS", pl.os>>
          /\ env[4] = <<"GOARCH", pl.architecture>>
          /\ \A k \in 1..Len(decl) :
                env[4 + extra + k] = <<decl[k].name, decl[k].value>>
          /\ extra = IF set /\ pl.architecture \in {"arm", "amd64"}
                       THEN 1 ELSE 0
          /\ (set /\ pl.architecture = "arm") =>
                /\ env[5][1] = "GOARM"
                /\ env[5][2] = IF Head(pl.variant) = "v"
                                 THEN Tail(pl.variant) ELSE pl.variant
          /\ (set /\ pl.architecture = "amd64") =>
                env[5] = <<"GOAMD64", pl.variant>>

\* the compiler for linux/arm/v7 of a function with two build envs
C36_Witness ==
    /\ gobuild.pc = "run"
    /\ gobuild.p = [os |-> "linux", architecture |-> "arm",
                    variant |-> <<"v", "7">>]
    /\ Len(gobuild.f.buildEnvs) = 2
    /\ gobuild.env[5] = <<"GOARM", <<"7">>>>
    /\ gobuild.env[7] = <<"A", <<"1">>>>

====
